---- MODULE Spec2Model ----
(***************************************************************************)
(* Nelson Muntz loop plugin.  Two generations of the loop live in the      *)
(* sources: the nm-* tools (nm-loop, nm-start, nm-task, nm-cancel,         *)
(* nm-status, nm-check-completion, nm-plan, nm-complete) work on           *)
(* .opencode/nelson-loop.local.json; the tools ralph-loop and cancel-ralph *)
(* and the session.idle handler of src/index.ts work on                    *)
(* .opencode/ralph-loop.local.json.  Also modelled: the plan parser and    *)
(* mutator, the plan prompt, the completion-promise detector and the       *)
(* commit message of src/git.ts.                                           *)
(*                                                                         *)
(* A tool call or a handler call is an async function: it is one step per  *)
(* await that reads or writes a file or the session, so calls interleave   *)
(* at these awaits.  pc[p] is the await call p stopped at, seen[p] the     *)
(* locals it holds.                                                        *)
(*                                                                         *)
(* Text is a sequence of one-character strings; a file's content is the    *)
(* sequence of its lines (content.split("\n")), so a line never holds a    *)
(* newline.  A nullable value is Null (<<>>) or Some(v) (<<v>>).           *)
(***************************************************************************)
EXTENDS Integers, Sequences, FiniteSets

VARIABLES
    stateFile,   \* .opencode/nelson-loop.local.json: Null or Some(LoopState)
    ralphFile,   \* .opencode/ralph-loop.local.json: Null or Some(RalphState)
    planFile,    \* .opencode/plans/PLAN.md: Null (no file) or Some(lines)
    otherPlans,  \* the other plan files, by path: Null (no file) or Some(lines)
    messages,    \* message history of the agent session
    now,         \* the clock read by new Date()
    out,         \* what the last operation returned / did (observation only)
    pc,          \* calls in flight: the await each call stopped at
    seen         \* calls in flight: the local variables of each call

vars == <<stateFile, ralphFile, planFile, otherPlans, messages, now, out, pc, seen>>

(***************************************************************************)
(* Bounds of the model.                                                    *)
(***************************************************************************)
MaxIter == 2
MaxMsgs == 1
MaxClock == 1
MaxCalls == 2
MaxLines == 3
MaxTokens == 6
MaxHistory == 6
MaxTitleTokens == 4

(***************************************************************************)
(* Nullable values.                                                        *)
(***************************************************************************)
Null == <<>>
Some(v) == <<v>>

(***************************************************************************)
(* Text helpers (String.prototype.trim, regex \s, indexOf).                *)
(***************************************************************************)
\* the white space of \s, trim and parseInt among the characters of the model
\* (space, tab, line feed, carriage return, form feed)
WS == {" ", "\t", "\n", "\r", "\f"}

\* the line terminators: the characters the regex . does not match
LineTerminators == {"\n", "\r"}

\* no character of s is a line terminator: . matches every character of s
NoLineBreak(s) == \A i \in 1..Len(s) : s[i] \notin LineTerminators

Min(S) == CHOOSE x \in S : \A y \in S : x <= y

Max(S) == CHOOSE x \in S : \A y \in S : x >= y

StartsWithAt(s, i, pat) ==
    /\ i >= 1
    /\ i + Len(pat) - 1 <= Len(s)
    /\ SubSeq(s, i, i + Len(pat) - 1) = pat

\* first index >= from at which pat occurs in s, 0 if none
IndexOf(s, pat, from) ==
    LET I == {i \in from..Len(s) : StartsWithAt(s, i, pat)}
    IN  IF I = {} THEN 0 ELSE Min(I)

TrimStart(s) ==
    LET I == {i \in 1..Len(s) : s[i] \notin WS}
    IN  IF I = {} THEN <<>> ELSE SubSeq(s, Min(I), Len(s))

Trim(s) ==
    LET I == {i \in 1..Len(s) : s[i] \notin WS}
    IN  IF I = {} THEN <<>> ELSE SubSeq(s, Min(I), Max(I))

\* s.replace(/\s+/g, " ")
RECURSIVE CollapseWS(_)
CollapseWS(s) ==
    IF s = <<>> THEN <<>>
    ELSE IF s[1] \in WS
         THEN LET I == {i \in 1..Len(s) : s[i] \notin WS}
              IN  IF I = {} THEN <<" ">>
                  ELSE <<" ">> \o CollapseWS(SubSeq(s, Min(I), Len(s)))
         ELSE <<s[1]>> \o CollapseWS(Tail(s))

OpenTag == <<"<", "p", "r", "o", "m", "i", "s", "e", ">">>

CloseTag == <<"<", "/", "p", "r", "o", "m", "i", "s", "e", ">">>

\* the span taken up to the last closing tag instead of the first
extractPromiseText_Greedy(text) ==
    LET i == IndexOf(text, OpenTag, 1)
        J == {j \in (i + Len(OpenTag))..Len(text) : StartsWithAt(text, j, CloseTag)}
    IN  IF i = 0 \/ J = {} THEN Null
        ELSE Some(CollapseWS(Trim(SubSeq(text, i + Len(OpenTag), Max(J) - 1))))

\* text.match(/<promise>([\s\S]*?)<\/promise>/), then trim and collapse
extractPromiseText(text) ==
    LET i == IndexOf(text, OpenTag, 1)
        j == IF i = 0 THEN 0 ELSE IndexOf(text, CloseTag, i + Len(OpenTag))
    IN  IF i = 0 \/ j = 0 THEN Null
        ELSE Some(CollapseWS(Trim(SubSeq(text, i + Len(OpenTag), j - 1))))

(***************************************************************************)
(* Plan parser (parsePlanFile) and mutator (updateTaskStatus).             *)
(***************************************************************************)
Digits == {"0", "1", "2", "3", "4", "5", "6", "7", "8", "9"}

Quotes == {"\"", "'"}

UpperCase == <<"A", "B", "C", "D", "E", "F", "G", "H", "I", "J", "K", "L", "M",
               "N", "O", "P", "Q", "R", "S", "T", "U", "V", "W", "X", "Y", "Z">>

LowerCase == <<"a", "b", "c", "d", "e", "f", "g", "h", "i", "j", "k", "l", "m",
               "n", "o", "p", "q", "r", "s", "t", "u", "v", "w", "x", "y", "z">>

UpperSet == {UpperCase[i] : i \in 1..Len(UpperCase)}

ToLower(c) ==
    IF c \in UpperSet
    THEN LowerCase[CHOOSE i \in 1..Len(UpperCase) : UpperCase[i] = c]
    ELSE c

LowerText(s) == [i \in 1..Len(s) |-> ToLower(s[i])]

\* number of whitespace characters of s starting at index i
WsRun(s, i) ==
    LET I == {k \in i..Len(s) : s[k] \notin WS}
    IN  IF I = {} THEN Len(s) - i + 1 ELSE Min(I) - i

\* line.match(/^#\s+(.+)/): \s+ takes k >= 1 white-space characters after the
\* "#" and the character after them is one that . matches
IsTitleLine(line) ==
    /\ line # <<>>
    /\ line[1] = "#"
    /\ \E k \in 1..WsRun(line, 2) :
          /\ k + 2 <= Len(line)
          /\ line[k + 2] \notin LineTerminators

\* line.replace(/^#\s+/, "").trim()
TitleOf(line) == Trim(SubSeq(line, 2 + WsRun(line, 2), Len(line)))

KeyCompletion == <<"c", "o", "m", "p", "l", "e", "t", "i", "o", "n">>

KeyPromise == <<"p", "r", "o", "m", "i", "s", "e", ":">>

\* pat (lower case) occurs in s at index i, ignoring case
StartsWithAtNoCase(s, i, pat) ==
    /\ i >= 1
    /\ i + Len(pat) - 1 <= Len(s)
    /\ \A k \in 1..Len(pat) : ToLower(s[i + k - 1]) = pat[k]

\* index just after "completion[_-]?promise:" (case-insensitive) matched at i, 0 if none
PromiseKeyEnd(line, i) ==
    LET a == i + Len(KeyCompletion)
        b == IF a <= Len(line) /\ line[a] \in {"_", "-"} THEN a + 1 ELSE a
    IN  IF StartsWithAtNoCase(line, i, KeyCompletion) /\ StartsWithAtNoCase(line, b, KeyPromise)
        THEN b + Len(KeyPromise)
        ELSE 0

\* the longest run of characters other than quotes starting at index i
NonQuoteRun(s, i) ==
    LET I == {k \in i..Len(s) : s[k] \in Quotes}
    IN  IF I = {} THEN SubSeq(s, i, Len(s)) ELSE SubSeq(s, i, Min(I) - 1)

\* group 1 of /\s*["']?([^"'\n]+)["']?/ matched at index r (after the colon)
PromiseCapture(line, r) ==
    LET k  == WsRun(line, r)
        q  == r + k
        quoted == q <= Len(line) /\ line[q] \in Quotes
        cap == IF quoted THEN NonQuoteRun(line, q + 1) ELSE NonQuoteRun(line, q)
    IN  IF cap # <<>> THEN Some(cap)
        ELSE IF k >= 1 THEN Some(<<line[q - 1]>>)
        ELSE Null

\* line.match(/completion[_-]?promise:\s*["']?([^"'\n]+)["']?/i): group 1 or Null
PromiseMatch(line) ==
    LET I == {i \in 1..Len(line) :
                 /\ PromiseKeyEnd(line, i) # 0
                 /\ PromiseCapture(line, PromiseKeyEnd(line, i)) # Null}
    IN  IF I = {} THEN Null
        ELSE PromiseCapture(line, PromiseKeyEnd(line, Min(I)))

\* line.match(/^##\s+<word>/i)
IsHeading(line, word) ==
    /\ Len(line) >= 3
    /\ line[1] = "#"
    /\ line[2] = "#"
    /\ line[3] \in WS
    /\ StartsWithAtNoCase(line, 3 + WsRun(line, 3), word)

WordOverview == <<"o", "v", "e", "r", "v", "i", "e", "w">>

WordTasks == <<"t", "a", "s", "k", "s">>

Bold == <<"*", "*">>

EndsWithBold(t) == Len(t) >= 3 /\ SubSeq(t, Len(t) - 1, Len(t)) = Bold

\* group (.+?) of /\s*(?:\*\*)?(.+?)(?:\*\*)?$/ applied to the text after "]".
\* $ (no m flag) is the end of the line and . matches no line terminator, so
\* the text after the white space that \s* takes holds no line terminator;
\* when r is white space only, \s* gives back its last character to (.+?)
TaskTitleCapture(r) ==
    LET r1 == SubSeq(r, 1 + WsRun(r, 1), Len(r))
        t  == IF StartsWithAt(r1, 1, Bold) /\ Len(r1) > 2
              THEN SubSeq(r1, 3, Len(r1)) ELSE r1
    IN  IF r1 # <<>>
        THEN IF NoLineBreak(r1)
             THEN Some(IF EndsWithBold(t) THEN SubSeq(t, 1, Len(t) - 2) ELSE t)
             ELSE Null
        ELSE IF r # <<>> /\ r[Len(r)] \notin LineTerminators THEN Some(<<r[Len(r)]>>)
        ELSE Null

\* index after the optional "(?:\d+\.\s+)?" list marker; 0 if the line starts
\* with a digit and the marker does not match
AfterNumber(line) ==
    IF line # <<>> /\ line[1] \in Digits
    THEN LET I == {k \in 1..Len(line) : line[k] \notin Digits}
             d == IF I = {} THEN Len(line) + 1 ELSE Min(I)
         IN  IF d + 1 <= Len(line) /\ line[d] = "." /\ line[d + 1] \in WS
             THEN d + 1 + WsRun(line, d + 1)
             ELSE 0
    ELSE 1

\* line.match(/^(?:\d+\.\s+)?-?\s*\[([ xX])\]\s*(?:\*\*)?(.+?)(?:\*\*)?$/)
TaskMatch(line) ==
    LET p0 == AfterNumber(line)
        p1 == IF p0 >= 1 /\ p0 <= Len(line) /\ line[p0] = "-" THEN p0 + 1 ELSE p0
        p2 == IF p1 = 0 THEN 0 ELSE p1 + WsRun(line, p1)
    IN  IF /\ p2 >= 1
           /\ p2 + 2 <= Len(line)
           /\ line[p2] = "["
           /\ line[p2 + 1] \in {" ", "x", "X"}
           /\ line[p2 + 2] = "]"
           /\ TaskTitleCapture(SubSeq(line, p2 + 3, Len(line))) # Null
        THEN Some([box   |-> line[p2 + 1],
                   title |-> TaskTitleCapture(SubSeq(line, p2 + 3, Len(line)))[1]])
        ELSE Null

\* line.match(/^\s{2,}/) && line.trim()
IsDescriptionLine(line) ==
    /\ Len(line) >= 2
    /\ line[1] \in WS
    /\ line[2] \in WS
    /\ Trim(line) # <<>>

RECURSIVE JoinLines(_)
JoinLines(ls) ==
    IF ls = <<>> THEN <<>>
    ELSE IF Len(ls) = 1 THEN ls[1]
    ELSE ls[1] \o <<"\n">> \o JoinLines(Tail(ls))

\* task ids counted from zero
TaskId_FromZero(n) == <<"task-", n - 1>>

TaskId(n) == <<"task-", n>>

\* tasks.push(currentTask) with its joined description
FlushTask(acc) ==
    IF acc.cur = Null THEN acc.tasks
    ELSE Append(acc.tasks, [acc.cur[1] EXCEPT !.description = Trim(JoinLines(acc.desc))])

\* one pass of the for loop of parsePlanFile over line number n
ParseStep(acc, line, n) ==
    IF acc.title = <<>> /\ IsTitleLine(line)
    THEN [acc EXCEPT !.title = TitleOf(line)]
    ELSE IF PromiseMatch(line) # Null
    THEN [acc EXCEPT !.completionPromise = Some(Trim(PromiseMatch(line)[1]))]
    ELSE IF IsHeading(line, WordOverview)
    THEN [acc EXCEPT !.inOverview = TRUE]
    ELSE IF IsHeading(line, WordTasks)
    THEN [acc EXCEPT !.inOverview = FALSE]
    ELSE IF acc.inOverview /\ Trim(line) # <<>>
    THEN [acc EXCEPT !.overview =
              IF @ = <<>> THEN line ELSE @ \o <<"\n">> \o line]
    ELSE IF TaskMatch(line) # Null
    THEN [acc EXCEPT
              !.tasks = FlushTask(acc),
              !.cur   = Some([id          |-> TaskId(Len(FlushTask(acc)) + 1),
                              title       |-> Trim(TaskMatch(line)[1].title),
                              description |-> <<>>,
                              status      |-> IF ToLower(TaskMatch(line)[1].box) = "x"
                                              THEN "completed" ELSE "pending",
                              lineNumber  |-> n]),
              !.desc  = <<>>]
    ELSE IF acc.cur # Null /\ IsDescriptionLine(line)
    THEN [acc EXCEPT !.desc = Append(@, Trim(line))]
    ELSE acc

RECURSIVE ParseFrom(_, _, _)
ParseFrom(acc, lines, n) ==
    IF n > Len(lines) THEN acc
    ELSE ParseFrom(ParseStep(acc, lines[n], n), lines, n + 1)

parsePlanFile(lines) ==
    LET Parsed(acc) == [title             |-> acc.title,
                        overview          |-> acc.overview,
                        tasks             |-> FlushTask(acc),
                        completionPromise |-> acc.completionPromise,
                        rawContent        |-> lines]
    IN  Parsed(ParseFrom([title |-> <<>>, overview |-> <<>>,
                          completionPromise |-> Null, inOverview |-> FALSE,
                          tasks |-> <<>>, cur |-> Null, desc |-> <<>>],
                         lines, 1))

\* line.replace(/\[\s\]/, "[x]")  /  line.replace(/\[[xX]\]/, "[ ]")
ReplaceCheckbox(line, newStatus) ==
    LET from == IF newStatus = "completed" THEN WS ELSE {"x", "X"}
        to   == IF newStatus = "completed" THEN "x" ELSE " "
        I    == {i \in 1..(Len(line) - 2) :
                    line[i] = "[" /\ line[i + 1] \in from /\ line[i + 2] = "]"}
    IN  IF I = {} THEN line ELSE [line EXCEPT ![Min(I) + 1] = to]

updateTaskStatus_AllBoxes(content, taskId, tasks, newStatus) ==
    [n \in 1..Len(content) |-> ReplaceCheckbox(content[n], newStatus)]

updateTaskStatus(content, taskId, tasks, newStatus) ==
    LET I == {i \in 1..Len(tasks) : tasks[i].id = taskId}
    IN  IF I = {} THEN content
        ELSE [content EXCEPT ![tasks[Min(I)].lineNumber] =
                  ReplaceCheckbox(@, newStatus)]

(***************************************************************************)
(* Plan files used as inputs.                                              *)
(***************************************************************************)
\* three tasks, the first completed; phrase declared in the template's comment form
PlanThree ==
    << <<"#", " ", "P">>,
       <<"<", "!", "-", "-", " ", "c", "o", "m", "p", "l", "e", "t", "i", "o", "n", "_", "p", "r", "o", "m", "i", "s", "e", ":", " ", "O", "K", " ", "-", "-", ">">>,
       <<"#", "#", " ", "T", "a", "s", "k", "s">>,
       <<"-", " ", "[", "x", "]", " ", "A">>,
       <<"-", " ", "[", " ", "]", " ", "*", "*", "B", "*", "*">>,
       <<" ", " ", "d">>,
       <<"-", " ", "[", " ", "]", " ", "C">> >>

\* two pending tasks, no phrase
PlanTwo ==
    << <<"-", " ", "[", " ", "]", " ", "A">>,
       <<"-", " ", "[", " ", "]", " ", "B", " ", "b">> >>

\* a title and no task
PlanNoTasks ==
    << <<"#", " ", "P">> >>

PlanFiles == {Null, Some(PlanThree), Some(PlanTwo), Some(PlanNoTasks)}

(***************************************************************************)
(* Plan file access (readPlanFile / writePlanFile); `if (!content)` is     *)
(* true for a missing file and for an empty one.                           *)
(***************************************************************************)
\* readPlanFile that answers a missing file with a two-task plan
readPlanFile_Fallback(file) == IF file = Null THEN Some(PlanTwo) ELSE file

readPlanFile(file) == file

writePlanFile(content) == Some(content)

NoContent(content) == content = Null \/ content[1] = << <<>> >>

(***************************************************************************)
(* State files.  The nm-* tools of the nelson generation keep their state  *)
(* in .opencode/nelson-loop.local.json (stateFile); the plugin of          *)
(* src/index.ts (ralph-loop, cancel-ralph and the session.idle handler)    *)
(* keeps its state in .opencode/ralph-loop.local.json (ralphFile).  The    *)
(* two generations have the same readState / writeState / removeState.     *)
(* Each of these functions awaits twice (exists then json, mkdir then      *)
(* write, exists then unlink) and has the effect of one access at one      *)
(* instant, so each is one step of the call that makes it.                 *)
(***************************************************************************)
\* a state file whose text is not JSON
CorruptFile == Some([unparsable |-> TRUE])

\* readState that answers unparsable text with a fresh active state
readState_Default(file) ==
    IF file = CorruptFile
    THEN Some([active |-> TRUE, iteration |-> 1, maxIterations |-> 0,
               completionPromise |-> Null, prompt |-> <<>>, sessionId |-> Some("s1"),
               startedAt |-> 0, planFile |-> Null, currentTaskId |-> Null,
               mode |-> Null, currentTaskNum |-> Null])
    ELSE file

\* file.json() throws on unparsable text; the catch makes readState return null
readState(file) == IF file = CorruptFile THEN Null ELSE file

writeState(state) == Some(state)

removeState_Keep(file) == file

removeState(file) == Null

DEFAULT_PLAN_FILE == ".opencode/plans/PLAN.md"

\* DEFAULT_PLAN_FILE of src/index.ts, the plan file of the ralph tools
RALPH_PLAN_FILE == "PLAN.md"

\* the file nm-plan addresses when it is given no file, no name and no
\* description: `${DEFAULT_PLAN_DIR}/${slug || "plan"}.md`
NM_PLAN_TARGET == ".opencode/plans/plan.md"

\* the file system tells PLAN.md from plan.md
OtherPlanFiles == {NM_PLAN_TARGET, RALPH_PLAN_FILE}

NoOtherPlans == [f \in OtherPlanFiles |-> Null]

\* Bun.file(planPath) for a path relative to the working directory
PlanAt(path) == IF path = DEFAULT_PLAN_FILE THEN planFile ELSE otherPlans[path]

\* Bun.write(planPath, content): the files after the write
WritePlan(path, file) ==
    /\ planFile' = IF path = DEFAULT_PLAN_FILE THEN file ELSE planFile
    /\ otherPlans' = IF path = DEFAULT_PLAN_FILE THEN otherPlans
                     ELSE [otherPlans EXCEPT ![path] = file]

LoopState(maxIterations, completionPromise, prompt, sessionId, startedAt, plan, currentTaskId, mode, currentTaskNum) ==
    [active            |-> TRUE,
     iteration         |-> 1,
     maxIterations     |-> maxIterations,
     completionPromise |-> completionPromise,
     prompt            |-> prompt,
     sessionId         |-> sessionId,
     startedAt         |-> startedAt,
     planFile          |-> plan,
     currentTaskId     |-> currentTaskId,
     mode              |-> mode,
     currentTaskNum    |-> currentTaskNum]

\* the RalphState written by ralph-loop
RalphState(maxIterations, completionPromise, prompt, sessionId, startedAt) ==
    [active            |-> TRUE,
     iteration         |-> 1,
     maxIterations     |-> maxIterations,
     completionPromise |-> completionPromise,
     prompt            |-> prompt,
     sessionId         |-> sessionId,
     startedAt         |-> startedAt]

\* existingState?.active
IsActive_Never(existing) == FALSE

IsActive(existing) == existing # Null /\ existing[1].active

\* what a step of an operation reports: the return value of the call, or
\* "pending" when the call stops at an await, and the side effects of the step.
\* read: the step read the state file; iteration: the iteration number the
\* message reports; atLimit: the limit test of the idle handler held for the
\* state the call holds.
Out(op, result) ==
    [op |-> op, result |-> result, read |-> FALSE, prompt |-> Null, toast |-> "none",
     commit |-> Null, iteration |-> Null, atLimit |-> FALSE]

\* the report of a start operation at the step that reads the state file
OutRead(op, result, existing) ==
    [Out(op, result) EXCEPT !.read = TRUE,
                            !.iteration = IF result = "already_active"
                                          THEN Some(existing[1].iteration) ELSE Null]

(***************************************************************************)
(* Calls in flight.  A tool and the idle handler are async functions: a    *)
(* call runs until an await, other calls run, and it resumes when the      *)
(* awaited access has been made.  pc[p] names the await call p stopped at   *)
(* (Ready: no call of p is in flight), seen[p] holds the local variables   *)
(* of the call.  A step of a call is the code between two awaits that      *)
(* touch the files or the session; an await that touches neither (mkdir,   *)
(* app.log, showToast, listPlanFiles) is part of the step that follows.    *)
(***************************************************************************)
Procs == 1..MaxCalls

Ready == "ready"

\* the call of p stops at the await named label and keeps locals
Suspend(p, label, locals) ==
    /\ pc' = [pc EXCEPT ![p] = label]
    /\ seen' = [seen EXCEPT ![p] = Some(locals)]

\* the call of p returns (or throws) to its caller
Return(p) ==
    /\ pc' = [pc EXCEPT ![p] = Ready]
    /\ seen' = [seen EXCEPT ![p] = Null]

\* the report of a step that stops at an await
Waiting(report) == [report EXCEPT !.result = "pending"]

\* the report of the step that returns what an earlier step decided
Returned(report) == [report EXCEPT !.read = FALSE]

(***************************************************************************)
(* Inputs of the tools.                                                    *)
(***************************************************************************)
PromptArgs == {<<>>, <<" ">>, <<"g", "o">>}

MaxIterArgs == {Null, Some(0), Some(1)}

PhraseOK == <<"O", "K">>

PhraseSpaced == <<"A", " ", " ", "B">>

PhraseArgs == {Null, Some(<<>>), Some(PhraseOK), Some(PhraseSpaced)}

ToolSessions == {Null, Some("s1")}

EventSessions == {Null, Some("s1"), Some("s2")}

TaskSelectors == {<<"2">>, <<"3">>, <<"b">>, <<"z">>}

\* the arguments of nm-loop; a call without a prompt is tried with no other argument
LoopArgs ==
    {a \in [prompt : PromptArgs, mi : MaxIterArgs, cp : PhraseArgs, sid : ToolSessions] :
        a.prompt \in {<<>>, <<" ">>} => a.mi = Null /\ a.cp = Null /\ a.sid = Null}

\* x || null for a string
OrNull(x) == IF x = Null \/ x[1] = <<>> THEN Null ELSE x

\* x ?? d, and the default of a destructured argument
OrDefault(x, d) == IF x = Null THEN d ELSE x[1]

DefaultLoopMaxIterations == 2

DefaultStartMaxIterations == 0

(***************************************************************************)
(* nm-loop                                                                 *)
(***************************************************************************)
\* lines 38-62: what the call decides from the state it reads, and the state
\* it hands to writeState
NmLoopResult(prompt, mi, cp, sid) ==
    LET maxIterations == OrDefault(mi, DefaultLoopMaxIterations)
        existingState == readState(stateFile)
    IN  IF prompt = <<>> \/ Trim(prompt) = <<>>
        THEN [file |-> stateFile, out |-> Out("nm-loop", "no_prompt")]
        ELSE IF IsActive(existingState)
        THEN [file |-> stateFile, out |-> OutRead("nm-loop", "already_active", existingState)]
        ELSE [file |-> writeState(LoopState(maxIterations, OrNull(cp), prompt, sid, now,
                                            Null, Null, Null, Null)),
              out  |-> OutRead("nm-loop", "started", existingState)]

\* one step of a call of nm-loop by p
NmLoop(p, prompt, mi, cp, sid) ==
    \/ \* lines 38-62: the call, readState (45), up to the await of writeState
       /\ pc[p] = Ready
       /\ \E r \in {NmLoopResult(prompt, mi, cp, sid)} :
             IF r.out.result = "started"
             THEN Suspend(p, "nm-loop:write", r) /\ out' = Waiting(r.out)
             ELSE Return(p) /\ out' = r.out
       /\ UNCHANGED <<stateFile, ralphFile, planFile, otherPlans, messages, now>>
    \/ \* lines 63-109: writeState, the return
       /\ pc[p] = "nm-loop:write"
       /\ stateFile' = seen[p][1].file
       /\ out' = Returned(seen[p][1].out)
       /\ Return(p)
       /\ UNCHANGED <<ralphFile, planFile, otherPlans, messages, now>>

(***************************************************************************)
(* nm-cancel                                                               *)
(***************************************************************************)
\* lines 117-123: the report of the call from the state it reads
NmCancelRead(file, op) ==
    IF IsActive(readState(file))
    THEN [Out(op, "cancelled") EXCEPT
             !.read = TRUE, !.iteration = Some(readState(file)[1].iteration)]
    ELSE [Out(op, "no_loop") EXCEPT !.read = TRUE]

\* nm-cancel that reports the cancellation and leaves the state file in place
NmCancel_NoRemove(p) ==
    \/ /\ pc[p] = Ready
       /\ \E r \in {NmCancelRead(stateFile, "nm-cancel")} :
             IF r.result = "cancelled"
             THEN Suspend(p, "nm-cancel:remove", [out |-> r]) /\ out' = Waiting(r)
             ELSE Return(p) /\ out' = r
       /\ UNCHANGED <<stateFile, ralphFile, planFile, otherPlans, messages, now>>
    \/ /\ pc[p] = "nm-cancel:remove"
       /\ out' = Returned(seen[p][1].out)
       /\ Return(p)
       /\ UNCHANGED <<stateFile, ralphFile, planFile, otherPlans, messages, now>>

\* one step of a call of nm-cancel by p
NmCancel(p) ==
    \/ \* lines 117-123: readState, up to the await of removeState
       /\ pc[p] = Ready
       /\ \E r \in {NmCancelRead(stateFile, "nm-cancel")} :
             IF r.result = "cancelled"
             THEN Suspend(p, "nm-cancel:remove", [out |-> r]) /\ out' = Waiting(r)
             ELSE Return(p) /\ out' = r
       /\ UNCHANGED <<stateFile, ralphFile, planFile, otherPlans, messages, now>>
    \/ \* lines 124-126: removeState, the return
       /\ pc[p] = "nm-cancel:remove"
       /\ stateFile' = removeState(stateFile)
       /\ out' = Returned(seen[p][1].out)
       /\ Return(p)
       /\ UNCHANGED <<ralphFile, planFile, otherPlans, messages, now>>

(***************************************************************************)
(* nm-status and nm-check-completion                                       *)
(***************************************************************************)
\* the only await of nm-status is readState: the call is one step
NmStatus ==
    /\ out' = IF IsActive(readState(stateFile))
              THEN [Out("nm-status", "status") EXCEPT
                       !.read = TRUE, !.iteration = Some(readState(stateFile)[1].iteration)]
              ELSE [Out("nm-status", "no_loop") EXCEPT !.read = TRUE]
    /\ UNCHANGED <<stateFile, ralphFile, planFile, otherPlans, messages, now, pc, seen>>

\* args.text of nm-check-completion
CheckTexts ==
    {<<"x">>,
     OpenTag \o PhraseOK \o CloseTag,
     OpenTag \o <<" ">> \o PhraseOK \o <<"\n">> \o CloseTag \o OpenTag \o <<"x">> \o CloseTag,
     OpenTag \o <<"x">> \o CloseTag \o OpenTag \o PhraseOK \o CloseTag,
     OpenTag \o PhraseSpaced \o CloseTag,
     OpenTag \o PhraseOK}

\* the tool with the comparison left out: any span counts
NmCheckCompletionResult_AnySpan(text) ==
    LET report(state, result) ==
            [Out("nm-check-completion", result) EXCEPT
                !.read = TRUE, !.iteration = Some(state.iteration)]
        Checked(state, promiseText) ==
            IF promiseText # Null /\ promiseText[1] # <<>>
            THEN report(state, "detected")
            ELSE report(state, "not_detected")
        Active(state) ==
            IF state.completionPromise = Null \/ state.completionPromise[1] = <<>>
            THEN [Out("nm-check-completion", "no_promise") EXCEPT !.read = TRUE]
            ELSE Checked(state, extractPromiseText(text))
    IN  IF ~IsActive(readState(stateFile))
        THEN [Out("nm-check-completion", "no_loop") EXCEPT !.read = TRUE]
        ELSE Active(readState(stateFile)[1])

\* lines 159-182 without the removal: the report of the call from the state it reads
NmCheckCompletionResult(text) ==
    LET report(state, result) ==
            [Out("nm-check-completion", result) EXCEPT
                !.read = TRUE, !.iteration = Some(state.iteration)]
        Checked(state, promiseText) ==
            IF promiseText # Null /\ promiseText[1] # <<>>
               /\ promiseText = state.completionPromise
            THEN report(state, "detected")
            ELSE report(state, "not_detected")
        Active(state) ==
            IF state.completionPromise = Null \/ state.completionPromise[1] = <<>>
            THEN [Out("nm-check-completion", "no_promise") EXCEPT !.read = TRUE]
            ELSE Checked(state, extractPromiseText(text))
    IN  IF ~IsActive(readState(stateFile))
        THEN [Out("nm-check-completion", "no_loop") EXCEPT !.read = TRUE]
        ELSE Active(readState(stateFile)[1])

\* one step of a call of nm-check-completion by p
NmCheckCompletion(p, text) ==
    \/ \* lines 159-170: readState, the comparison, up to the await of removeState
       /\ pc[p] = Ready
       /\ \E r \in {NmCheckCompletionResult(text)} :
             IF r.result = "detected"
             THEN Suspend(p, "nm-check-completion:remove", [out |-> r]) /\ out' = Waiting(r)
             ELSE Return(p) /\ out' = r
       /\ UNCHANGED <<stateFile, ralphFile, planFile, otherPlans, messages, now>>
    \/ \* lines 171-173: removeState, the return
       /\ pc[p] = "nm-check-completion:remove"
       /\ stateFile' = removeState(stateFile)
       /\ out' = Returned(seen[p][1].out)
       /\ Return(p)
       /\ UNCHANGED <<ralphFile, planFile, otherPlans, messages, now>>

(***************************************************************************)
(* Task selection (parseInt, findIndex) and first pending task.            *)
(***************************************************************************)
DigitSeq == <<"0", "1", "2", "3", "4", "5", "6", "7", "8", "9">>

DigitValue(c) == (CHOOSE i \in 1..10 : DigitSeq[i] = c) - 1

RECURSIVE DigitsValue(_)
DigitsValue(ds) ==
    IF ds = <<>> THEN 0
    ELSE 10 * DigitsValue(SubSeq(ds, 1, Len(ds) - 1)) + DigitValue(ds[Len(ds)])

\* String(n) for n >= 0
RECURSIVE ToDigits(_)
ToDigits(n) ==
    IF n < 10 THEN <<DigitSeq[n + 1]>>
    ELSE ToDigits(n \div 10) \o <<DigitSeq[(n % 10) + 1]>>

\* parseInt(s, 10): Null is NaN
parseInt(s) ==
    LET t    == TrimStart(s)
        neg  == t # <<>> /\ t[1] = "-"
        u    == IF t # <<>> /\ t[1] \in {"+", "-"} THEN Tail(t) ELSE t
        I    == {k \in 1..Len(u) : u[k] \notin Digits}
        ds   == IF I = {} THEN u ELSE SubSeq(u, 1, Min(I) - 1)
    IN  IF ds = <<>> THEN Null
        ELSE Some(IF neg THEN 0 - DigitsValue(ds) ELSE DigitsValue(ds))

\* haystack.includes(needle)
Includes(haystack, needle) ==
    \E i \in 1..(Len(haystack) + 1) : StartsWithAt(haystack, i, needle)

\* 1-based index of the selected task, 0 if not found
ResolveTask(plan, sel) ==
    LET taskNum == parseInt(sel)
        I == {i \in 1..Len(plan.tasks) :
                 Includes(LowerText(plan.tasks[i].title), LowerText(sel))}
    IN  IF taskNum # Null /\ taskNum[1] >= 1 /\ taskNum[1] <= Len(plan.tasks)
        THEN taskNum[1]
        ELSE IF I = {} THEN 0 ELSE Min(I)

\* the last pending task instead of the first
FirstPending_Last(plan) ==
    LET I == {i \in 1..Len(plan.tasks) : plan.tasks[i].status # "completed"}
    IN  IF I = {} THEN 0 ELSE Max(I)

\* plan.tasks.findIndex((t) => t.status !== "completed") + 1; 0 if none
FirstPending(plan) ==
    LET I == {i \in 1..Len(plan.tasks) : plan.tasks[i].status # "completed"}
    IN  IF I = {} THEN 0 ELSE Min(I)

(***************************************************************************)
(* nm-task                                                                 *)
(***************************************************************************)
\* lines 255-291: what the call decides from the plan file it reads; k is the
\* number of the selected task
NmTaskPlan(sel) ==
    LET report(result) == [out |-> Out("nm-task", result), k |-> 0, id |-> <<>>]
        \* the code after the task is found: taskIndex is k - 1
        Found(plan, k) ==
            IF plan.tasks[k].status = "completed"
            THEN report("already_complete")
            ELSE [out |-> Out("nm-task", "found"), k |-> k, id |-> plan.tasks[k].id]
        \* the code after the plan is parsed
        Parsed(plan) ==
            IF Len(plan.tasks) = 0
            THEN report("no_tasks")
            ELSE IF ResolveTask(plan, sel) = 0
            THEN report("not_found")
            ELSE Found(plan, ResolveTask(plan, sel))
    IN  IF NoContent(readPlanFile(planFile))
        THEN report("no_plan")
        ELSE Parsed(parsePlanFile(readPlanFile(planFile)[1]))

\* lines 293-314: what the call decides from the state it reads, and the state
\* it hands to writeState, for the task found in the plan
NmTaskResult(found, sid) ==
    LET existingState == readState(stateFile)
    IN  IF IsActive(existingState)
        THEN [file |-> stateFile,
              out  |-> OutRead("nm-task", "already_active", existingState)]
        ELSE [file |-> writeState(LoopState(1, Null, <<>>, sid, now,
                                            Some(DEFAULT_PLAN_FILE), Some(found.id),
                                            Some("single-task"), Some(found.k))),
              out  |-> OutRead("nm-task", "started", existingState)]

\* one step of a call of nm-task by p
NmTask(p, sel, sid) ==
    \/ \* lines 253-292: the call, readPlanFile (255), up to the await of readState
       /\ pc[p] = Ready
       /\ \E r \in {NmTaskPlan(sel)} :
             IF r.out.result = "found"
             THEN /\ Suspend(p, "nm-task:state", [k |-> r.k, id |-> r.id, sid |-> sid])
                  /\ out' = Waiting(r.out)
             ELSE Return(p) /\ out' = r.out
       /\ UNCHANGED <<stateFile, ralphFile, planFile, otherPlans, messages, now>>
    \/ \* lines 293-314: readState, up to the await of writeState
       /\ pc[p] = "nm-task:state"
       /\ \E r \in {NmTaskResult(seen[p][1], seen[p][1].sid)} :
             IF r.out.result = "started"
             THEN Suspend(p, "nm-task:write", r) /\ out' = Waiting(r.out)
             ELSE Return(p) /\ out' = r.out
       /\ UNCHANGED <<stateFile, ralphFile, planFile, otherPlans, messages, now>>
    \/ \* lines 315-349: writeState, the return
       /\ pc[p] = "nm-task:write"
       /\ stateFile' = seen[p][1].file
       /\ out' = Returned(seen[p][1].out)
       /\ Return(p)
       /\ UNCHANGED <<ralphFile, planFile, otherPlans, messages, now>>

(***************************************************************************)
(* nm-start                                                                *)
(***************************************************************************)
\* lines 435-451: what the call decides from the plan file it reads
NmStartPlan(mi) ==
    LET report(result) ==
            [out |-> Out("nm-start", result), maxIterations |-> 0, k |-> 0, id |-> <<>>,
             title |-> <<>>, completionPromise |-> Null]
        \* the code after the plan is parsed
        Parsed(plan) ==
            IF Len(plan.tasks) = 0
            THEN report("no_tasks")
            ELSE IF \A i \in 1..Len(plan.tasks) : plan.tasks[i].status = "completed"
            THEN report("all_complete")
            ELSE [out |-> Out("nm-start", "found"),
                  maxIterations |-> OrDefault(mi, DefaultStartMaxIterations),
                  k  |-> FirstPending(plan),
                  id |-> plan.tasks[FirstPending(plan)].id,
                  title |-> plan.tasks[FirstPending(plan)].title,
                  completionPromise |-> OrNull(plan.completionPromise)]
    IN  IF NoContent(readPlanFile(planFile))
        THEN report("no_plan")
        ELSE Parsed(parsePlanFile(readPlanFile(planFile)[1]))

\* lines 466-486: the state the call hands to writeState; found is what the
\* call kept of the plan it read
NmStartResult(found, sid) ==
    writeState(LoopState(found.maxIterations, found.completionPromise, <<>>, sid, now,
                         Some(DEFAULT_PLAN_FILE), Some(found.id), Some("loop"),
                         Some(found.k)))

\* the session message that names the task the agent is asked to work on
Asked(title) == [role |-> "user", parts |-> <<[type |-> "text", text |-> title]>>]

\* one step of a call of nm-start by p; keep: the task named by the output of
\* the tool is kept in messages
NmStartStep(p, mi, sid, keep) ==
    \/ \* lines 433-453: the call, readPlanFile (436), up to the await of readState
       /\ pc[p] = Ready
       /\ \E r \in {NmStartPlan(mi)} :
             IF r.out.result = "found"
             THEN /\ Suspend(p, "nm-start:state", [found |-> r, sid |-> sid])
                  /\ out' = Waiting(r.out)
             ELSE Return(p) /\ out' = r.out
       /\ UNCHANGED <<stateFile, ralphFile, planFile, otherPlans, messages, now>>
    \/ \* lines 454-465: readState, up to the await of detectProjectTools
       /\ pc[p] = "nm-start:state"
       /\ IF IsActive(readState(stateFile))
          THEN /\ Return(p)
               /\ out' = OutRead("nm-start", "already_active", readState(stateFile))
          ELSE /\ pc' = [pc EXCEPT ![p] = "nm-start:tools"]
               /\ seen' = seen
               /\ out' = Waiting(OutRead("nm-start", "started", readState(stateFile)))
       /\ UNCHANGED <<stateFile, ralphFile, planFile, otherPlans, messages, now>>
    \/ \* lines 466-486: the state built, up to the await of writeState
       /\ pc[p] = "nm-start:tools"
       /\ Suspend(p, "nm-start:write",
                  [file  |-> NmStartResult(seen[p][1].found, seen[p][1].sid),
                   title |-> seen[p][1].found.title])
       /\ out' = Out("nm-start", "pending")
       /\ UNCHANGED <<stateFile, ralphFile, planFile, otherPlans, messages, now>>
    \/ \* lines 487-509: writeState, the return
       /\ pc[p] = "nm-start:write"
       /\ stateFile' = seen[p][1].file
       /\ out' = Out("nm-start", "started")
       /\ messages' = IF keep THEN Append(messages, Asked(seen[p][1].title)) ELSE messages
       /\ Return(p)
       /\ UNCHANGED <<ralphFile, planFile, otherPlans, now>>

\* one step of a call of nm-start by p
NmStart(p, mi, sid) == NmStartStep(p, mi, sid, FALSE)

(***************************************************************************)
(* ralph-loop and cancel-ralph (src/index.ts).                             *)
(***************************************************************************)
\* lines 469-493: as nm-loop, on the ralph state file
RalphLoopResult(prompt, mi, cp, sid) ==
    LET maxIterations == OrDefault(mi, DefaultLoopMaxIterations)
        existingState == readState(ralphFile)
    IN  IF prompt = <<>> \/ Trim(prompt) = <<>>
        THEN [file |-> ralphFile, out |-> Out("ralph-loop", "no_prompt")]
        ELSE IF IsActive(existingState)
        THEN [file |-> ralphFile,
              out  |-> OutRead("ralph-loop", "already_active", existingState)]
        ELSE [file |-> writeState(RalphState(maxIterations, OrNull(cp), prompt, sid, now)),
              out  |-> OutRead("ralph-loop", "started", existingState)]

\* one step of a call of ralph-loop by p
RalphLoop(p, prompt, mi, cp, sid) ==
    \/ \* lines 469-493: the call, readState (476), up to the await of writeState
       /\ pc[p] = Ready
       /\ \E r \in {RalphLoopResult(prompt, mi, cp, sid)} :
             IF r.out.result = "started"
             THEN Suspend(p, "ralph-loop:write", r) /\ out' = Waiting(r.out)
             ELSE Return(p) /\ out' = r.out
       /\ UNCHANGED <<stateFile, ralphFile, planFile, otherPlans, messages, now>>
    \/ \* lines 494-541: writeState, the return
       /\ pc[p] = "ralph-loop:write"
       /\ ralphFile' = seen[p][1].file
       /\ out' = Returned(seen[p][1].out)
       /\ Return(p)
       /\ UNCHANGED <<stateFile, planFile, otherPlans, messages, now>>

\* one step of a call of cancel-ralph by p
CancelRalph(p) ==
    \/ \* lines 549-555: readState, up to the await of removeState
       /\ pc[p] = Ready
       /\ \E r \in {NmCancelRead(ralphFile, "cancel-ralph")} :
             IF r.result = "cancelled"
             THEN Suspend(p, "cancel-ralph:remove", [out |-> r]) /\ out' = Waiting(r)
             ELSE Return(p) /\ out' = r
       /\ UNCHANGED <<stateFile, ralphFile, planFile, otherPlans, messages, now>>
    \/ \* lines 556-558: removeState, the return
       /\ pc[p] = "cancel-ralph:remove"
       /\ ralphFile' = removeState(ralphFile)
       /\ out' = Returned(seen[p][1].out)
       /\ Return(p)
       /\ UNCHANGED <<stateFile, planFile, otherPlans, messages, now>>

(***************************************************************************)
(* Git collaborator and markTaskCompleteAndCommit.                         *)
(***************************************************************************)
GitOutcomes == {"ok", "not_repo", "no_changes", "add_failed", "commit_failed"}

\* createGitCommit: git names the step of the git collaborator that fails, if any
createGitCommit(taskTitle, taskNum, git) ==
    CASE git = "not_repo"      -> [success |-> FALSE, message |-> "Not a git repository"]
      [] git = "no_changes"    -> [success |-> FALSE, message |-> "No changes to commit"]
      [] git = "add_failed"    -> [success |-> FALSE, message |-> "Failed to stage changes"]
      [] git = "commit_failed" -> [success |-> FALSE, message |-> "Failed to commit"]
      [] OTHER                 -> [success |-> TRUE,  message |-> "Created commit"]

markTaskCompleteAndCommit_NoWrite(file, taskNum, shouldCommit, git) ==
    [threw |-> FALSE, wrote |-> FALSE, file |-> file, taskTitle |-> <<>>,
     commitResult |-> Null]

\* the checkbox written only when the commit succeeded
markTaskCompleteAndCommit_CommitGates(file, taskNum, shouldCommit, git) ==
    LET Commit(task, wrote, written) ==
            [threw |-> FALSE,
             wrote |-> wrote /\ ~(shouldCommit /\ git # "ok"),
             file  |-> IF shouldCommit /\ git # "ok" THEN file ELSE written,
             taskTitle    |-> task.title,
             commitResult |-> IF shouldCommit
                              THEN Some([taskNum |-> taskNum, title |-> task.title,
                                         result  |-> createGitCommit(task.title, taskNum, git)])
                              ELSE Null]
        Parsed(content, plan) ==
            IF taskNum < 1 \/ taskNum > Len(plan.tasks)
            THEN [threw |-> TRUE, wrote |-> FALSE, file |-> file, taskTitle |-> <<>>,
                  commitResult |-> Null]
            ELSE Commit(plan.tasks[taskNum],
                        plan.tasks[taskNum].status # "completed",
                        IF plan.tasks[taskNum].status = "completed" THEN file
                        ELSE writePlanFile(updateTaskStatus(content, plan.tasks[taskNum].id,
                                                            plan.tasks, "completed")))
    IN  IF NoContent(readPlanFile(file))
        THEN [threw |-> TRUE, wrote |-> FALSE, file |-> file, taskTitle |-> <<>>,
              commitResult |-> Null]
        ELSE Parsed(readPlanFile(file)[1], parsePlanFile(readPlanFile(file)[1]))

\* the call from the plan file it reads at line 86.  threw: the function
\* raised (plan file not found / invalid task number); wrote: writePlanFile is
\* called (lines 99-103); file: the text it writes, the file as read when it
\* writes nothing
markTaskCompleteAndCommit(file, taskNum, shouldCommit, git) ==
    LET \* lines 105-111: written is the plan file after lines 99-103
        Commit(task, wrote, written) ==
            [threw |-> FALSE,
             wrote |-> wrote,
             file  |-> written,
             taskTitle    |-> task.title,
             commitResult |-> IF shouldCommit
                              THEN Some([taskNum |-> taskNum, title |-> task.title,
                                         result  |-> createGitCommit(task.title, taskNum, git)])
                              ELSE Null]
        \* the code after the plan is parsed
        Parsed(content, plan) ==
            IF taskNum < 1 \/ taskNum > Len(plan.tasks)
            THEN [threw |-> TRUE, wrote |-> FALSE, file |-> file, taskTitle |-> <<>>,
                  commitResult |-> Null]
            ELSE Commit(plan.tasks[taskNum],
                        plan.tasks[taskNum].status # "completed",
                        IF plan.tasks[taskNum].status = "completed" THEN file
                        ELSE writePlanFile(updateTaskStatus(content, plan.tasks[taskNum].id,
                                                            plan.tasks, "completed")))
    IN  IF NoContent(readPlanFile(file))
        THEN [threw |-> TRUE, wrote |-> FALSE, file |-> file, taskTitle |-> <<>>,
              commitResult |-> Null]
        ELSE Parsed(readPlanFile(file)[1], parsePlanFile(readPlanFile(file)[1]))

\* the await of markTaskCompleteAndCommit that follows its readPlanFile:
\* writePlanFile (102), createGitCommit (108), or none (the call returns or
\* has thrown)
AfterRead_CommitFirst(m) ==
    IF ~m.threw /\ m.commitResult # Null THEN "controller:commit" ELSE "controller:rest"

AfterWrite(m) ==
    IF m.commitResult # Null THEN "controller:commit" ELSE "controller:rest"

AfterRead(m) ==
    IF m.threw THEN "controller:rest"
    ELSE IF m.wrote THEN "controller:write"
    ELSE AfterWrite(m)

(***************************************************************************)
(* Session messages and checkCompletionInSession.                          *)
(***************************************************************************)
Lookback == 5

TextPart(text) == [type |-> "text", text |-> text]

AssistantSays(text) == [role |-> "assistant", parts |-> <<TextPart(text)>>]

UserSays(text) == [role |-> "user", parts |-> <<TextPart(text)>>]

Promise(p) == OpenTag \o p \o CloseTag

\* client.session.messages({ path: { id: sessionId } }): the agent works in s1
SessionMessages(sessionId) == IF sessionId = Some("s1") THEN messages ELSE <<>>

\* the scan without the test of the role
checkCompletionInSession_AnyRole(sessionId, completionPromise, fetchOk) ==
    LET msgs == SessionMessages(sessionId)
    IN  /\ fetchOk
        /\ \E i \in 1..Len(msgs) :
              /\ i >= Len(msgs) - Lookback + 1
              /\ \E k \in 1..Len(msgs[i].parts) :
                    /\ msgs[i].parts[k].type = "text"
                    /\ extractPromiseText(msgs[i].parts[k].text) = Some(completionPromise)

checkCompletionInSession(sessionId, completionPromise, fetchOk) ==
    LET msgs == SessionMessages(sessionId)
    IN  /\ fetchOk
        /\ \E i \in 1..Len(msgs) :
              /\ i >= Len(msgs) - Lookback + 1
              /\ msgs[i].role = "assistant"
              /\ \E k \in 1..Len(msgs[i].parts) :
                    /\ msgs[i].parts[k].type = "text"
                    /\ extractPromiseText(msgs[i].parts[k].text) = Some(completionPromise)

(***************************************************************************)
(* session.idle handler of src/index.ts: it works on the ralph state file  *)
(* and treats every state alike.                                           *)
(***************************************************************************)
\* the calls of the handler that can reject.  fault names the call that
\* rejects in the step that makes it: the log call of the no-session branch
\* (335), the writeState of the session update (348), the log call of a
\* terminal branch (355, 377), showToast (363, 385), the unlink of removeState
\* (370, 392; caught inside removeState), the writeState of the advance (398),
\* the log call of the banner (408), the log call of the catch block (430).  A
\* rejected await outside a try block ends the handler with the exception:
\* result "threw".
FaultPoints ==
    {"none", "log_nosession", "write_session", "log_done", "toast", "remove",
     "write_advance", "log_banner", "log_prompt_error"}

\* what a step of the handler is given: the session id the notification
\* carries and how the collaborators the step calls answer
IdleInputs ==
    [sid : EventSessions, fetchOk : BOOLEAN, promptOk : BOOLEAN, fault : {"none"}]

FaultInputs ==
    [sid : EventSessions, fetchOk : BOOLEAN, promptOk : BOOLEAN, fault : FaultPoints]

\* the session id of the notification ignored
ResolveSession_StoredOnly(state, e) == state.sessionId

\* event.properties.sessionId || state.sessionId
ResolveSession(state, e) == IF e.sid # Null THEN e.sid ELSE state.sessionId

\* state.maxIterations > 0 && state.iteration >= state.maxIterations
LimitReached_Never(state) == FALSE

LimitReached_Off(state) == state.maxIterations > 0 /\ state.iteration > state.maxIterations

\* the limit test without the test that a limit is set
LimitReached_ZeroBounds(state) == state.iteration >= state.maxIterations

LimitReached(state) == state.maxIterations > 0 /\ state.iteration >= state.maxIterations

\* if (state.completionPromise)
HasPromise(state) == state.completionPromise # Null /\ state.completionPromise[1] # <<>>

\* the iteration banner (the leading emoji of the source text is left out)
SystemMsg(state) ==
    IF HasPromise(state)
    THEN <<"Ralph iteration ">> \o ToDigits(state.iteration)
            \o <<" | To stop: output ">> \o Promise(state.completionPromise[1])
            \o <<" (ONLY when statement is TRUE - do not lie to exit!)">>
    ELSE <<"Ralph iteration ">> \o ToDigits(state.iteration)
            \o <<" | No completion promise set - loop runs infinitely">>

\* `${systemMsg}\n\n---\n\n${state.prompt}`
PromptText(state) == SystemMsg(state) \o <<"\n\n---\n\n">> \o state.prompt

\* the advance that counts the iteration twice
Advance_Twice(state) == [state EXCEPT !.iteration = @ + 2]

\* state.iteration++

Advance(state) == [state EXCEPT !.iteration = @ + 1]

Sent(sessionId, text, ok) == Some([session |-> sessionId, text |-> text, delivered |-> ok])

\* lines 375-398: the await the handler stops at once no completion was found
AfterScan(state) == IF LimitReached(state) THEN "idle:limit" ELSE "idle:advance"

\* the limit tested before the completion phrase
AfterSession_LimitFirst(state) ==
    IF LimitReached(state) THEN "idle:limit"
    ELSE IF HasPromise(state) THEN "idle:scan" ELSE "idle:advance"

\* lines 351-353: the await the handler stops at once the session id is settled
AfterSession(state) == IF HasPromise(state) THEN "idle:scan" ELSE AfterScan(state)

\* the report of a step of the handler that holds state
IdleOut(state, result) == [Out("idle", result) EXCEPT !.atLimit = LimitReached(state)]

\* lines 354-371 (label "idle:success") and 376-393 (label "idle:limit"): the
\* log call, the toast and removeState
IdleDone(label, state, file, fault) ==
    IF fault \in {"log_done", "toast"}
    THEN [file |-> file, out |-> IdleOut(state, "threw")]
    ELSE [file |-> IF fault = "remove" THEN file ELSE removeState(file),
          out  |-> IF label = "idle:success"
                   THEN [IdleOut(state, "success") EXCEPT
                            !.toast = "success", !.iteration = Some(state.iteration)]
                   ELSE [IdleOut(state, "limit") EXCEPT !.toast = "warning"]]

\* lines 400-437: the report of the step that sends the prompt; state is the
\* advanced state
IdlePrompt(state, promptOk, fault) ==
    IF fault = "log_banner"
    THEN Out("idle", "threw")
    ELSE [Out("idle", IF ~promptOk /\ fault = "log_prompt_error" THEN "threw" ELSE "advance")
             EXCEPT !.prompt = Sent(state.sessionId, PromptText(state), promptOk)]

\* one step of the handling of a session.idle notification by p
Idle(p, e) ==
    \/ \* lines 326-345: readState (329), the session id resolved
       /\ pc[p] = Ready
       /\ IF ~IsActive(readState(ralphFile))
          THEN /\ Return(p)
               /\ out' = [Out("idle", "noop") EXCEPT !.read = TRUE]
          ELSE IF ResolveSession(readState(ralphFile)[1], e) = Null
          THEN /\ Return(p)
               /\ out' = [Out("idle", IF e.fault = "log_nosession" THEN "threw"
                                      ELSE "nosession") EXCEPT !.read = TRUE]
          ELSE \E st \in {[readState(ralphFile)[1] EXCEPT
                              !.sessionId = ResolveSession(readState(ralphFile)[1], e)]} :
                  /\ Suspend(p, IF st.sessionId # readState(ralphFile)[1].sessionId
                                THEN "idle:session" ELSE AfterSession(st),
                             [state |-> st])
                  /\ out' = [IdleOut(st, "pending") EXCEPT !.read = TRUE]
       /\ UNCHANGED <<stateFile, ralphFile, planFile, otherPlans, messages, now>>
    \/ \* lines 346-349: the new session id persisted
       /\ pc[p] = "idle:session"
       /\ IF e.fault = "write_session"
          THEN /\ Return(p)
               /\ ralphFile' = ralphFile
               /\ out' = Out("idle", "threw")
          ELSE /\ ralphFile' = writeState(seen[p][1].state)
               /\ pc' = [pc EXCEPT ![p] = AfterSession(seen[p][1].state)]
               /\ seen' = seen
               /\ out' = IdleOut(seen[p][1].state, "pending")
       /\ UNCHANGED <<stateFile, planFile, otherPlans, messages, now>>
    \/ \* lines 351-353 and 291-322: the message history fetched and scanned
       /\ pc[p] = "idle:scan"
       /\ pc' = [pc EXCEPT ![p] =
                    IF checkCompletionInSession(seen[p][1].state.sessionId,
                                                seen[p][1].state.completionPromise[1],
                                                e.fetchOk)
                    THEN "idle:success" ELSE AfterScan(seen[p][1].state)]
       /\ seen' = seen
       /\ out' = IdleOut(seen[p][1].state, "pending")
       /\ UNCHANGED <<stateFile, ralphFile, planFile, otherPlans, messages, now>>
    \/ \* lines 354-371 and 376-393: the loop is over
       /\ pc[p] \in {"idle:success", "idle:limit"}
       /\ \E r \in {IdleDone(pc[p], seen[p][1].state, ralphFile, e.fault)} :
             /\ ralphFile' = r.file
             /\ out' = r.out
       /\ Return(p)
       /\ UNCHANGED <<stateFile, planFile, otherPlans, messages, now>>
    \/ \* lines 396-398: the advanced state persisted
       /\ pc[p] = "idle:advance"
       /\ seen[p][1].state.iteration < MaxIter
       /\ IF e.fault = "write_advance"
          THEN /\ Return(p)
               /\ ralphFile' = ralphFile
               /\ out' = Out("idle", "threw")
          ELSE /\ ralphFile' = writeState(Advance(seen[p][1].state))
               /\ Suspend(p, "idle:prompt", [state |-> Advance(seen[p][1].state)])
               /\ out' = Out("idle", "pending")
       /\ UNCHANGED <<stateFile, planFile, otherPlans, messages, now>>
    \/ \* lines 400-437: the banner logged, the prompt sent
       /\ pc[p] = "idle:prompt"
       /\ out' = IdlePrompt(seen[p][1].state, e.promptOk, e.fault)
       /\ Return(p)
       /\ UNCHANGED <<stateFile, ralphFile, planFile, otherPlans, messages, now>>

(***************************************************************************)
(* LoopController of the nelson generation (spec 4.4): the session.idle    *)
(* handler that works on the nelson state file and dispatches on the mode  *)
(* of the loop.  Its code is not part of the sources; it is taken from the *)
(* specification.  It calls markTaskCompleteAndCommit of src/git.ts, whose *)
(* awaits are steps of the call: the plan file is read (86), written (102) *)
(* and committed (108) in three steps, and what the user does to the plan  *)
(* file falls between them.  The rest of the notification (spec 4.4 steps  *)
(* 2-6, or the clearing of the single-task state) is one step.  The        *)
(* controller handles a notification to its end before the plugin does     *)
(* anything else (spec 5).                                                 *)
(***************************************************************************)
\* one notification: the session id it carries and how the collaborators answer
\* when it arrives (at most one collaborator fails)
ControllerInputs ==
    {e \in [sid : EventSessions, fetchOk : BOOLEAN, promptOk : BOOLEAN, git : GitOutcomes] :
        Cardinality({f \in {"fetch", "prompt", "git"} :
                        \/ f = "fetch" /\ ~e.fetchOk
                        \/ f = "prompt" /\ ~e.promptOk
                        \/ f = "git" /\ e.git # "ok"}) <= 1}

\* Active/Freeform: state already carries the resolved session id
FreeformTransition(state, e) ==
    LET done(result) == [Out("controller", result) EXCEPT !.read = TRUE,
                                                          !.atLimit = LimitReached(state)]
    IN  IF /\ HasPromise(state)
           /\ checkCompletionInSession(state.sessionId, state.completionPromise[1], e.fetchOk)
        THEN [file |-> removeState(stateFile),
              out  |-> [done("success") EXCEPT !.toast = "success",
                                               !.iteration = Some(state.iteration)]]
        ELSE IF LimitReached(state)
        THEN [file |-> removeState(stateFile),
              out  |-> [done("limit") EXCEPT !.toast = "warning"]]
        ELSE [file |-> writeState(Advance(state)),
              out  |-> [done("advance") EXCEPT
                           !.prompt = Sent(state.sessionId, PromptText(Advance(state)),
                                           e.promptOk)]]

\* generateSingleTaskPrompt(plan, task, taskNum, true, { compact: true })
CompactPrompt(plan, taskNum) ==
    LET task == plan.tasks[taskNum]
        completedCount ==
            Cardinality({i \in 1..Len(plan.tasks) : plan.tasks[i].status = "completed"})
    IN  <<"## Task ">> \o ToDigits(taskNum) \o <<"/">> \o ToDigits(Len(plan.tasks))
           \o <<" (">> \o ToDigits(completedCount) \o <<" done)\n\n", "**">>
           \o task.title \o <<"**\n\n">>
           \o (IF task.description = <<>> THEN <<"No description.">> ELSE task.description)
           \o <<"\n\nComplete this task, then the loop continues.">>

\* createGitCommit has not answered yet
NotRun == [success |-> FALSE, message |-> "not run"]

\* the marking m at the await that follows the read of the plan file: the
\* commit, if one is to be made, is still to be requested
Requested(m) ==
    IF m.commitResult = Null THEN m
    ELSE [m EXCEPT !.commitResult = Some([@[1] EXCEPT !.result = NotRun])]

\* the call of markTaskCompleteAndCommit a notification makes for the state it
\* read: single-task without a commit, plan loop with one; a plan loop
\* without a stored task makes none
ControllerMark(state, e) ==
    IF state.mode = Some("single-task")
    THEN markTaskCompleteAndCommit(planFile, state.currentTaskNum[1], FALSE, e.git)
    ELSE IF state.currentTaskNum # Null
    THEN markTaskCompleteAndCommit(planFile, state.currentTaskNum[1], TRUE, e.git)
    ELSE [threw |-> FALSE, wrote |-> FALSE, file |-> planFile, taskTitle |-> <<>>,
          commitResult |-> Null]

\* Active/SingleTask, after the stored task was marked (m, no commit): always
\* clear the state
SingleTaskTransition(state, m) ==
    [file |-> removeState(stateFile),
     out  |-> [Out("controller", IF m.threw THEN "single_mark_failed" ELSE "single_done")
                  EXCEPT !.commit = m.commitResult]]

\* Active/PlanLoop, steps 2-6, after step 1 ended as m; promptOk: the prompt
\* is delivered
PlanLoopTransition(state, m, promptOk) ==
    LET done(result) == [Out("controller", result) EXCEPT !.commit = m.commitResult,
                                                          !.atLimit = LimitReached(state)]
        \* steps 3-6: the plan as re-read after step 1
        Reread(plan) ==
            LET k    == FirstPending(plan)
                next == [Advance(state) EXCEPT !.currentTaskId  = Some(plan.tasks[k].id),
                                               !.currentTaskNum = Some(k)]
            IN  IF k = 0
                THEN [file |-> removeState(stateFile),
                      out  |-> [done("plan_success") EXCEPT !.toast = "success"]]
                ELSE IF LimitReached(state)
                THEN [file |-> removeState(stateFile),
                      out  |-> [done("plan_limit") EXCEPT !.toast = "warning"]]
                ELSE [file |-> writeState(next),
                      out  |-> [done("plan_advance") EXCEPT
                                   !.prompt = Sent(state.sessionId, CompactPrompt(plan, k),
                                                   promptOk)]]
    IN  \* step 2: re-read the plan file
        IF NoContent(readPlanFile(planFile))
        THEN [file |-> removeState(stateFile), out |-> done("plan_fatal")]
        ELSE Reread(parsePlanFile(readPlanFile(planFile)[1]))

\* the last step of a notification that marks a task: the dispatch on the mode
ControllerResult(state, m, promptOk) ==
    IF state.mode = Some("single-task") THEN SingleTaskTransition(state, m)
    ELSE PlanLoopTransition(state, m, promptOk)

\* the notification e arrives for call p: the state read, inactive, no
\* session, the dispatch on the mode; for a task to mark,
\* markTaskCompleteAndCommit up to the await that follows its readPlanFile
\* (git.ts:86-101)
ControllerEnter(p, e) ==
    /\ pc[p] = Ready
    /\ LET state     == readState(stateFile)
           sessionId == ResolveSession(state[1], e)
           st        == [state[1] EXCEPT !.sessionId = sessionId]
           m         == Requested(ControllerMark(st, e))
           free      == FreeformTransition(st, e)
       IN  IF state = Null \/ ~state[1].active
           THEN /\ out' = [Out("controller", "noop") EXCEPT !.read = TRUE]
                /\ UNCHANGED <<stateFile, pc, seen>>
           ELSE IF sessionId = Null
           THEN /\ out' = [Out("controller", "nosession") EXCEPT !.read = TRUE]
                /\ UNCHANGED <<stateFile, pc, seen>>
           ELSE IF st.mode \notin {Some("single-task"), Some("loop")}
           THEN /\ readState(free.file) # Null => free.file[1].iteration <= MaxIter
                /\ stateFile' = free.file
                /\ out' = free.out
                /\ UNCHANGED <<pc, seen>>
           ELSE /\ Suspend(p, AfterRead(m), [state |-> st, read |-> planFile, m |-> m])
                /\ out' = [Out("controller", "pending") EXCEPT !.read = TRUE]
                /\ UNCHANGED stateFile
    /\ UNCHANGED <<ralphFile, planFile, otherPlans, messages, now>>

\* git.ts:102: writePlanFile of the text updated from the text read at 86
ControllerWrite(p) ==
    /\ pc[p] = "controller:write"
    /\ planFile' = seen[p][1].m.file
    /\ pc' = [pc EXCEPT ![p] = AfterWrite(seen[p][1].m)]
    /\ seen' = seen
    /\ out' = Out("controller", "pending")
    /\ UNCHANGED <<stateFile, ralphFile, otherPlans, messages, now>>

\* git.ts:108: createGitCommit on the working tree as it is (tree: the plan
\* file in it); git: the answer of the git collaborator
ControllerCommit(p, git) ==
    /\ pc[p] = "controller:commit"
    /\ LET req == seen[p][1].m.commitResult[1]
           c   == [req EXCEPT !.result = createGitCommit(req.title, req.taskNum, git)]
       IN  /\ Suspend(p, "controller:rest", [seen[p][1] EXCEPT !.m.commitResult = Some(c)])
           /\ out' = [Out("controller", "pending") EXCEPT
                         !.commit = Some([taskNum |-> c.taskNum, title |-> c.title,
                                          result |-> c.result, tree |-> planFile])]
    /\ UNCHANGED <<stateFile, ralphFile, planFile, otherPlans, messages, now>>

\* the rest of the notification, after markTaskCompleteAndCommit returned or
\* threw; keep: the task named by the prompt it sends is kept in messages
ControllerRest(p, promptOk, keep) ==
    /\ pc[p] = "controller:rest"
    /\ LET r == ControllerResult(seen[p][1].state, seen[p][1].m, promptOk)
       IN  /\ readState(r.file) # Null => r.file[1].iteration <= MaxIter
           /\ stateFile' = r.file
           /\ out' = r.out
           /\ messages' =
                 IF keep /\ r.out.prompt # Null
                 THEN Append(messages,
                             Asked(parsePlanFile(planFile[1]).tasks[r.file[1].currentTaskNum[1]].title))
                 ELSE messages
    /\ Return(p)
    /\ UNCHANGED <<ralphFile, planFile, otherPlans, now>>

\* one step of the notification handled by the LoopController as call p;
\* answers: what the git collaborator may answer
ControllerStep(p, answers, keep) ==
    \/ \E e \in ControllerInputs : ControllerEnter(p, e)
    \/ ControllerWrite(p)
    \/ \E git \in answers : ControllerCommit(p, git)
    \/ \E promptOk \in BOOLEAN : ControllerRest(p, promptOk, keep)

\* one step of a session.idle notification handled by the LoopController; the
\* tools are call 1, the controller is call 2.  The session is idle when the
\* notification arrives: no tool call is in flight
Notification(answers, keep) ==
    /\ pc[2] = Ready => pc[1] = Ready
    /\ ControllerStep(2, answers, keep)

LoopController == Notification(GitOutcomes, FALSE)

(***************************************************************************)
(* Environment: the agent writes to the session, the user edits the plan,  *)
(* time passes, something other than the plugin overwrites a state file    *)
(* with text that is not JSON.                                             *)
(***************************************************************************)
AgentMessage(m) ==
    /\ Len(messages) < MaxMsgs
    /\ messages' = Append(messages, m)
    /\ out' = Out("message", "none")
    /\ UNCHANGED <<stateFile, ralphFile, planFile, otherPlans, now, pc, seen>>

UserEditsPlan(p) ==
    /\ p # planFile
    /\ planFile' = p
    /\ otherPlans' = otherPlans
    /\ out' = Out("edit", "none")
    /\ UNCHANGED <<stateFile, ralphFile, messages, now, pc, seen>>

Tick ==
    /\ now < MaxClock
    /\ now' = now + 1
    /\ out' = Out("tick", "none")
    /\ UNCHANGED <<stateFile, ralphFile, planFile, otherPlans, messages, pc, seen>>

CorruptState ==
    /\ stateFile # CorruptFile
    /\ stateFile' = CorruptFile
    /\ out' = Out("corrupt", "none")
    /\ UNCHANGED <<ralphFile, planFile, otherPlans, messages, now, pc, seen>>

CorruptRalphState ==
    /\ ralphFile # CorruptFile
    /\ ralphFile' = CorruptFile
    /\ out' = Out("corrupt", "none")
    /\ UNCHANGED <<stateFile, planFile, otherPlans, messages, now, pc, seen>>

(***************************************************************************)
(* The nelson generation: the nm tools, whose calls overlap, and the       *)
(* LoopController.                                                         *)
(***************************************************************************)
Init ==
    /\ stateFile = Null
    /\ ralphFile = Null
    /\ planFile \in PlanFiles
    /\ otherPlans = NoOtherPlans
    /\ messages = <<>>
    /\ now = 0
    /\ out = Out("init", "none")
    /\ pc = [p \in Procs |-> Ready]
    /\ seen = [p \in Procs |-> Null]

\* no call of the controller is in flight
ControllerIdle == pc[2] = Ready

Next ==
    \/ ControllerIdle /\ \E sel \in TaskSelectors, sid \in ToolSessions : NmTask(1, sel, sid)
    \/ ControllerIdle /\ \E mi \in MaxIterArgs, sid \in ToolSessions : NmStart(1, mi, sid)
    \/ ControllerIdle /\ NmCancel(1)
    \/ LoopController
    \/ \E f \in PlanFiles : UserEditsPlan(f)

Spec == Init /\ [][Next]_vars

(***************************************************************************)
(* The plugin of src/index.ts: ralph-loop, cancel-ralph and the idle       *)
(* handler, whose calls overlap.                                           *)
(***************************************************************************)
InitRalph ==
    /\ stateFile = Null
    /\ ralphFile = Null
    /\ planFile = Null
    /\ otherPlans = NoOtherPlans
    /\ messages = <<>>
    /\ now = 0
    /\ out = Out("init", "none")
    /\ pc = [p \in Procs |-> Ready]
    /\ seen = [p \in Procs |-> Null]

RalphArgs == {a \in LoopArgs : a.cp \in {Null, Some(PhraseOK)}}

RalphMessages == {AssistantSays(Promise(PhraseOK)), UserSays(Promise(PhraseOK))}

NextRalph ==
    \/ \E p \in Procs, a \in RalphArgs : RalphLoop(p, a.prompt, a.mi, a.cp, a.sid)
    \/ \E p \in Procs : CancelRalph(p)
    \/ \E p \in Procs, e \in IdleInputs : Idle(p, e)
    \/ \E m \in RalphMessages : AgentMessage(m)
    \/ Tick

SpecRalph == InitRalph /\ [][NextRalph]_vars

\* the same loop with collaborators whose calls reject
FaultArgs == {a \in RalphArgs : a.prompt = <<"g", "o">> /\ a.mi # Some(0)}

NextFaults ==
    \/ \E p \in Procs, a \in FaultArgs : RalphLoop(p, a.prompt, a.mi, a.cp, a.sid)
    \/ \E p \in Procs, e \in FaultInputs : Idle(p, e)
    \/ AgentMessage(AssistantSays(Promise(PhraseOK)))

SpecFaults == InitRalph /\ [][NextFaults]_vars

(***************************************************************************)
(* nm-complete, nm-plan and nm-tasks.                                      *)
(***************************************************************************)
\* lines 370-397: what the call decides from the plan file it reads, and the
\* text it hands to writePlanFile
NmCompleteResult(sel) ==
    LET \* the code after the task is looked up: k = 0 when task is undefined
        Parsed(content, plan, k) ==
            IF k = 0
            THEN [plan |-> planFile, out |-> Out("nm-complete", "not_found")]
            ELSE IF plan.tasks[k].status = "completed"
            THEN [plan |-> planFile, out |-> Out("nm-complete", "already_complete")]
            ELSE [plan |-> writePlanFile(updateTaskStatus(content, plan.tasks[k].id,
                                                          plan.tasks, "completed")),
                  out  |-> Out("nm-complete", "completed")]
    IN  IF NoContent(readPlanFile(planFile))
        THEN [plan |-> planFile, out |-> Out("nm-complete", "no_plan")]
        ELSE Parsed(readPlanFile(planFile)[1], parsePlanFile(readPlanFile(planFile)[1]),
                    ResolveTask(parsePlanFile(readPlanFile(planFile)[1]), sel))

\* one step of a call of nm-complete by p
NmComplete(p, sel) ==
    \/ \* lines 370-397: the call, readPlanFile (372), up to the await of writePlanFile
       /\ pc[p] = Ready
       /\ \E r \in {NmCompleteResult(sel)} :
             IF r.out.result = "completed"
             THEN Suspend(p, "nm-complete:write", r) /\ out' = Waiting(r.out)
             ELSE Return(p) /\ out' = r.out
       /\ UNCHANGED <<stateFile, ralphFile, planFile, otherPlans, messages, now>>
    \/ \* lines 398-408: writePlanFile, the return
       /\ pc[p] = "nm-complete:write"
       /\ planFile' = seen[p][1].plan
       /\ otherPlans' = otherPlans
       /\ out' = seen[p][1].out
       /\ Return(p)
       /\ UNCHANGED <<stateFile, ralphFile, messages, now>>

PlanActions == {Null, Some("view"), Some("save"), Some("create")}

\* args.content of nm-plan: absent, empty, blank, or a plan
PlanContents == {Null, Some(<< <<>> >>), Some(<< <<" ">>, <<>> >>), Some(PlanTwo)}

\* args.file of the plan tools: absent, or the path of the plan file of the nm tools
FileArgs == {Null, Some(DEFAULT_PLAN_FILE)}

\* !args.content || args.content.trim() === ""
BlankContent(content) ==
    content = Null \/ \A n \in 1..Len(content[1]) : Trim(content[1][n]) = <<>>

\* lines 77-84: the file nm-plan addresses, called without name and description
NmPlanTarget(file) == OrDefault(file, NM_PLAN_TARGET)

\* nm-plan whose save reports an existing plan file after overwriting it
NmPlanResult_Overwrite(action, content, file) ==
    LET act == OrDefault(action, "create")
        existing == PlanAt(NmPlanTarget(file))
        existingContent == readPlanFile(existing)
    IN  IF act = "view"
        THEN [plan |-> existing,
              out  |-> Out("nm-plan", IF NoContent(existingContent) THEN "no_plan"
                                      ELSE "viewed")]
        ELSE IF act = "save"
        THEN IF BlankContent(content)
             THEN [plan |-> existing, out |-> Out("nm-plan", "no_content")]
             ELSE IF ~NoContent(existingContent)
             THEN [plan |-> writePlanFile(content[1]), out |-> Out("nm-plan", "exists")]
             ELSE [plan |-> writePlanFile(content[1]), out |-> Out("nm-plan", "saved")]
        ELSE [plan |-> existing,
              out  |-> Out("nm-plan", IF ~NoContent(existingContent) THEN "exists"
                                      ELSE "ready")]

\* lines 76-148: what the call decides from the plan file it reads, and the
\* text it hands to writePlanFile (the plan file as it is when it writes none)
NmPlanResult(action, content, file) ==
    LET act == OrDefault(action, "create")
        existing == PlanAt(NmPlanTarget(file))
        existingContent == readPlanFile(existing)
    IN  IF act = "view"
        THEN [plan |-> existing,
              out  |-> Out("nm-plan", IF NoContent(existingContent) THEN "no_plan"
                                      ELSE "viewed")]
        ELSE IF act = "save"
        THEN IF BlankContent(content)
             THEN [plan |-> existing, out |-> Out("nm-plan", "no_content")]
             ELSE IF ~NoContent(existingContent)
             THEN [plan |-> existing, out |-> Out("nm-plan", "exists")]
             ELSE [plan |-> writePlanFile(content[1]), out |-> Out("nm-plan", "saved")]
        ELSE [plan |-> existing,
              out  |-> Out("nm-plan", IF ~NoContent(existingContent) THEN "exists"
                                      ELSE "ready")]

\* one step of a call of nm-plan by p
NmPlan(p, action, content, file) ==
    \/ \* lines 76-125 and 136-148: the call, readPlanFile (89, 121, 137), up to
       \* the await of writePlanFile
       /\ pc[p] = Ready
       /\ \E r \in {NmPlanResult(action, content, file)} :
             IF r.plan # PlanAt(NmPlanTarget(file))
             THEN /\ Suspend(p, "nm-plan:write",
                             [path |-> NmPlanTarget(file), plan |-> r.plan, out |-> r.out])
                  /\ out' = Waiting(r.out)
             ELSE Return(p) /\ out' = r.out
       /\ UNCHANGED <<stateFile, ralphFile, planFile, otherPlans, messages, now>>
    \/ \* lines 126-133: writePlanFile, the return
       /\ pc[p] = "nm-plan:write"
       /\ WritePlan(seen[p][1].path, seen[p][1].plan)
       /\ out' = seen[p][1].out
       /\ Return(p)
       /\ UNCHANGED <<stateFile, ralphFile, messages, now>>

\* lines 202-233: the only await of nm-tasks that reads a plan file is
\* readPlanFile; called without a name
NmTasks(file) ==
    LET content == readPlanFile(PlanAt(OrDefault(file, DEFAULT_PLAN_FILE)))
    IN  /\ out' = Out("nm-tasks",
                      IF NoContent(content) THEN "no_plan"
                      ELSE IF Len(parsePlanFile(content[1]).tasks) = 0 THEN "no_tasks"
                      ELSE "listed")
        /\ UNCHANGED <<stateFile, ralphFile, planFile, otherPlans, messages, now, pc, seen>>

(***************************************************************************)
(* The nm tools on their own, their calls overlapping: no idle             *)
(* notification arrives.  nm-complete is one of the two calls and nm-plan  *)
(* the other, so each overlaps the other and every other tool.             *)
(***************************************************************************)
\* args.task: the selectors of nm-task, the empty text, digits followed by a
\* letter, and the first ordinal
SelectorArgs == TaskSelectors \cup {<<>>, <<"2", "b">>, <<"1">>}

\* the arguments of nm-plan; content is given to a save
PlanArgs ==
    {a \in [action : PlanActions, content : PlanContents, file : FileArgs] :
        a.action # Some("save") => a.content = Null}

\* the arguments of nm-loop that decide between its answers
ToolsLoopArgs == {a \in LoopArgs : a.mi = Null /\ a.cp = Null /\ a.sid = Null}

NextTools ==
    \/ \E p \in Procs, a \in ToolsLoopArgs : NmLoop(p, a.prompt, a.mi, a.cp, a.sid)
    \/ \E p \in Procs, sel \in SelectorArgs : NmTask(p, sel, Null)
    \/ \E p \in Procs : NmStart(p, Null, Null)
    \/ \E p \in Procs : NmCancel(p)
    \/ \E sel \in SelectorArgs : NmComplete(1, sel)
    \/ \E a \in PlanArgs : NmPlan(2, a.action, a.content, a.file)
    \/ \E file \in {Null, Some(NM_PLAN_TARGET)} : NmTasks(file)

SpecTools == Init /\ [][NextTools]_vars

StartLoopArgs == {a \in LoopArgs : a.mi = Null /\ a.sid = Null}

NextStart ==
    \/ \E p \in Procs, a \in StartLoopArgs : NmLoop(p, a.prompt, a.mi, a.cp, a.sid)
    \/ \E p \in Procs, sel \in TaskSelectors : NmTask(p, sel, Null)
    \/ \E p \in Procs, mi \in MaxIterArgs : NmStart(p, mi, Null)
    \/ \E p \in Procs : NmCancel(p)
    \/ Tick

SpecStart == Init /\ [][NextStart]_vars

(***************************************************************************)
(* generatePlanPrompt: the plan rendered as markdown, line by line.        *)
(***************************************************************************)
\* the lines of the Instructions section (the backquote of the source text is
\* written "^")
InstructionsHeading ==
    <<"#", "#", " ", "I", "n", "s", "t", "r", "u", "c", "t", "i", "o", "n", "s">>

InstructionsImportant ==
    <<"*", "*", "I", "M", "P", "O", "R", "T", "A", "N", "T", "*", "*", ":", " ", "A", "f", "t",
      "e", "r", " ", "c", "o", "m", "p", "l", "e", "t", "i", "n", "g", " ", "e", "a", "c", "h",
      " ", "t", "a", "s", "k", ",", " ", "i", "m", "m", "e", "d", "i", "a", "t", "e", "l", "y",
      " ", "u", "s", "e", " ", "t", "h", "e", " ", "^", "r", "a", "l", "p", "h", "-", "c", "o",
      "m", "p", "l", "e", "t", "e", "^", " ", "t", "o", "o", "l", " ", "t", "o", " ", "m", "a",
      "r", "k", " ", "i", "t", " ", "d", "o", "n", "e", " ", "i", "n", " ", "t", "h", "e", " ",
      "P", "L", "A", "N", ".", "m", "d", " ", "f", "i", "l", "e", ".", " ", "D", "o", " ", "N",
      "O", "T", " ", "b", "a", "t", "c", "h", " ", "c", "o", "m", "p", "l", "e", "t", "i", "o",
      "n", "s", " ", "-", " ", "m", "a", "r", "k", " ", "e", "a", "c", "h", " ", "t", "a", "s",
      "k", " ", "c", "o", "m", "p", "l", "e", "t", "e", " ", "r", "i", "g", "h", "t", " ", "a",
      "f", "t", "e", "r", " ", "f", "i", "n", "i", "s", "h", "i", "n", "g", " ", "i", "t", ".">>

InstructionsExample ==
    <<"E", "x", "a", "m", "p", "l", "e", ":", " ", "A", "f", "t", "e", "r", " ", "f", "i", "n",
      "i", "s", "h", "i", "n", "g", " ", "t", "a", "s", "k", " ", "1", ",", " ", "r", "u", "n",
      ":", " ", "^", "r", "a", "l", "p", "h", "-", "c", "o", "m", "p", "l", "e", "t", "e", " ",
      "1", "^">>

InstructionsWhy ==
    <<"T", "h", "i", "s", " ", "e", "n", "s", "u", "r", "e", "s", " ", "p", "r", "o", "g", "r",
      "e", "s", "s", " ", "i", "s", " ", "t", "r", "a", "c", "k", "e", "d", " ", "a", "c", "c",
      "u", "r", "a", "t", "e", "l", "y", " ", "a", "n", "d", " ", "t", "h", "e", " ", "p", "l",
      "a", "n", " ", "f", "i", "l", "e", " ", "s", "t", "a", "y", "s", " ", "i", "n", " ", "s",
      "y", "n", "c", " ", "w", "i", "t", "h", " ", "a", "c", "t", "u", "a", "l", " ", "w", "o",
      "r", "k", " ", "d", "o", "n", "e", ".">>

CompletionHeading == <<"#", "#", " ", "C", "o", "m", "p", "l", "e", "t", "i", "o", "n">>

CompletionLead ==
    <<"W", "h", "e", "n", " ", "A", "L", "L", " ", "t", "a", "s", "k", "s", " ", "a", "r", "e",
      " ", "c", "o", "m", "p", "l", "e", "t", "e", ",", " ", "o", "u", "t", "p", "u", "t", ":",
      " ">>

OverviewHeading == <<"#", "#", " ", "O", "v", "e", "r", "v", "i", "e", "w">>

TasksHeading == <<"#", "#", " ", "T", "a", "s", "k", "s">>

LineTitle == <<"#", " ", "P">>

LinePending == <<"-", " ", "[", " ", "]", " ", "A">>

LineDone == <<"-", " ", "[", "x", "]", " ", "B">>

\* a pending task whose title holds a bracket token
LinePendingBox == <<"-", " ", "[", " ", "]", " ", "a", " ", "[", " ", "]">>

\* a completed task whose title holds an empty box
LineMixed == <<"-", " ", "[", "x", "]", " ", "c", " ", "[", " ", "]">>

LineNumbered == <<"1", ".", " ", "[", "X", "]", " ", "N">>

LineDesc == <<" ", " ", "d">>

\* a checkbox line of a file with CRLF line ends, as content.split("\n") leaves it
LineCarriage == <<"-", " ", "[", "x", "]", " ", "R", "\r">>

LinePromise ==
    <<"c", "o", "m", "p", "l", "e", "t", "i", "o", "n", "_", "p", "r", "o", "m", "i", "s", "e",
      ":", " ", "O", "K">>

\* the phrase declared as the templates do, in an HTML comment
LineComment ==
    <<"<", "!", "-", "-", " ", "c", "o", "m", "p", "l", "e", "t", "i", "o", "n", "_", "p", "r",
      "o", "m", "i", "s", "e", ":", " ", "O", "K", " ", "-", "-", ">">>

\* text.split("\n")
RECURSIVE SplitLines(_)
SplitLines(text) ==
    IF IndexOf(text, <<"\n">>, 1) = 0 THEN <<text>>
    ELSE <<SubSeq(text, 1, IndexOf(text, <<"\n">>, 1) - 1)>>
            \o SplitLines(SubSeq(text, IndexOf(text, <<"\n">>, 1) + 1, Len(text)))

\* `- ${checkbox} **${task.title}**\n` and the description indented by two spaces
TaskLines(task) ==
    << <<"-", " ", "[", (IF task.status = "completed" THEN "x" ELSE " "), "]", " ">>
          \o Bold \o task.title \o Bold >>
       \o (IF task.description # <<>>
           THEN [i \in 1..Len(SplitLines(task.description)) |->
                    <<" ", " ">> \o SplitLines(task.description)[i]]
           ELSE <<>>)

RECURSIVE RenderTasks(_)
RenderTasks(tasks) ==
    IF tasks = <<>> THEN <<>> ELSE TaskLines(Head(tasks)) \o RenderTasks(Tail(tasks))

\* generatePlanPrompt(plan) without a task filter, split at "\n"
generatePlanPrompt(plan) ==
    << <<"#", " ">> \o plan.title, <<>> >>
       \o (IF plan.overview # <<>>
           THEN <<OverviewHeading>> \o SplitLines(plan.overview) \o << <<>> >>
           ELSE <<>>)
       \o <<TasksHeading, <<>> >>
       \o RenderTasks(plan.tasks)
       \o << <<>>, InstructionsHeading, <<>>, InstructionsImportant, <<>>,
              InstructionsExample, <<>>, InstructionsWhy >>
       \o (IF plan.completionPromise # Null /\ plan.completionPromise[1] # <<>>
           THEN << <<>>, CompletionHeading, <<>>,
                   CompletionLead \o Promise(plan.completionPromise[1]) >>
           ELSE <<>>)
       \o << <<>> >>

(***************************************************************************)
(* The tools of src/index.ts that work on a plan file or on the ralph      *)
(* state file: ralph-status, ralph-check-completion, ralph-plan,           *)
(* ralph-tasks, ralph-task, ralph-complete and ralph-start.  A call given  *)
(* no file addresses PLAN.md in the working directory.                     *)
(***************************************************************************)
\* the only await of ralph-status is readState: the call is one step
RalphStatus ==
    /\ out' = IF IsActive(readState(ralphFile))
              THEN [Out("ralph-status", "status") EXCEPT
                       !.read = TRUE, !.iteration = Some(readState(ralphFile)[1].iteration)]
              ELSE [Out("ralph-status", "no_loop") EXCEPT !.read = TRUE]
    /\ UNCHANGED <<stateFile, ralphFile, planFile, otherPlans, messages, now, pc, seen>>

\* one step of a call of ralph-check-completion by p
RalphCheckCompletion(p, text) ==
    LET state == readState(ralphFile)
        promiseText == extractPromiseText(text)
        report(result) ==
            [Out("ralph-check-completion", result) EXCEPT
                !.read = TRUE, !.iteration = Some(state[1].iteration)]
    IN  \/ \* lines 591-603: readState, the comparison, up to the await of removeState
           /\ pc[p] = Ready
           /\ IF ~IsActive(state)
              THEN /\ Return(p)
                   /\ out' = [Out("ralph-check-completion", "no_loop") EXCEPT !.read = TRUE]
              ELSE IF state[1].completionPromise = Null \/ state[1].completionPromise[1] = <<>>
              THEN /\ Return(p)
                   /\ out' = [Out("ralph-check-completion", "no_promise") EXCEPT !.read = TRUE]
              ELSE IF promiseText # Null /\ promiseText[1] # <<>>
                      /\ promiseText = state[1].completionPromise
              THEN /\ Suspend(p, "ralph-check-completion:remove", [out |-> report("detected")])
                   /\ out' = Waiting(report("detected"))
              ELSE Return(p) /\ out' = report("not_detected")
           /\ UNCHANGED <<stateFile, ralphFile, planFile, otherPlans, messages, now>>
        \/ \* lines 604-606: removeState, the return
           /\ pc[p] = "ralph-check-completion:remove"
           /\ ralphFile' = removeState(ralphFile)
           /\ out' = Returned(seen[p][1].out)
           /\ Return(p)
           /\ UNCHANGED <<stateFile, planFile, otherPlans, messages, now>>

\* PLAN_TEMPLATE (lines 249-286), split at "\n"
PLAN_TEMPLATE ==
    << <<"#", " ", "P", "r", "o", "j", "e", "c", "t", " ", "P", "l", "a", "n">>,
       <<>>,
       <<"<", "!", "-", "-", " ", "O", "p", "t", "i", "o", "n", "a", "l", ":", " ", "S",
         "e", "t", " ", "a", " ", "c", "o", "m", "p", "l", "e", "t", "i", "o", "n", " ",
         "p", "r", "o", "m", "i", "s", "e", " ", "-", "-", ">">>,
       <<"<", "!", "-", "-", " ", "c", "o", "m", "p", "l", "e", "t", "i", "o", "n", "_",
         "p", "r", "o", "m", "i", "s", "e", ":", " ", "A", "L", "L", "_", "T", "A", "S",
         "K", "S", "_", "C", "O", "M", "P", "L", "E", "T", "E", " ", "-", "-", ">">>,
       <<>>,
       <<"#", "#", " ", "O", "v", "e", "r", "v", "i", "e", "w">>,
       <<>>,
       <<"D", "e", "s", "c", "r", "i", "b", "e", " ", "y", "o", "u", "r", " ", "p", "r",
         "o", "j", "e", "c", "t", " ", "g", "o", "a", "l", "s", " ", "a", "n", "d", " ",
         "c", "o", "n", "t", "e", "x", "t", " ", "h", "e", "r", "e", ".", " ", "T", "h",
         "i", "s", " ", "s", "e", "c", "t", "i", "o", "n", " ", "h", "e", "l", "p", "s",
         " ", "t", "h", "e", " ", "A", "I", " ", "u", "n", "d", "e", "r", "s", "t", "a",
         "n", "d">>,
       <<"t", "h", "e", " ", "b", "i", "g", "g", "e", "r", " ", "p", "i", "c", "t", "u",
         "r", "e", " ", "a", "n", "d", " ", "m", "a", "k", "e", " ", "b", "e", "t", "t",
         "e", "r", " ", "d", "e", "c", "i", "s", "i", "o", "n", "s", ".">>,
       <<>>,
       <<"#", "#", " ", "T", "a", "s", "k", "s">>,
       <<>>,
       <<"-", " ", "[", " ", "]", " ", "*", "*", "T", "a", "s", "k", " ", "1", ":", " ",
         "S", "e", "t", "u", "p", " ", "a", "n", "d", " ", "C", "o", "n", "f", "i", "g",
         "u", "r", "a", "t", "i", "o", "n", "*", "*">>,
       <<" ", " ", "I", "n", "i", "t", "i", "a", "l", "i", "z", "e", " ", "t", "h", "e",
         " ", "p", "r", "o", "j", "e", "c", "t", " ", "s", "t", "r", "u", "c", "t", "u",
         "r", "e", " ", "a", "n", "d", " ", "c", "o", "n", "f", "i", "g", "u", "r", "e",
         " ", "d", "e", "p", "e", "n", "d", "e", "n", "c", "i", "e", "s", ".">>,
       <<" ", " ", "I", "n", "c", "l", "u", "d", "e", " ", "a", "n", "y", " ", "s", "p",
         "e", "c", "i", "f", "i", "c", " ", "r", "e", "q", "u", "i", "r", "e", "m", "e",
         "n", "t", "s", " ", "o", "r", " ", "c", "o", "n", "s", "t", "r", "a", "i", "n",
         "t", "s", ".">>,
       <<>>,
       <<"-", " ", "[", " ", "]", " ", "*", "*", "T", "a", "s", "k", " ", "2", ":", " ",
         "I", "m", "p", "l", "e", "m", "e", "n", "t", " ", "C", "o", "r", "e", " ", "F",
         "e", "a", "t", "u", "r", "e", "*", "*">>,
       <<" ", " ", "D", "e", "s", "c", "r", "i", "b", "e", " ", "w", "h", "a", "t", " ",
         "n", "e", "e", "d", "s", " ", "t", "o", " ", "b", "e", " ", "b", "u", "i", "l",
         "t", ".">>,
       <<" ", " ", "L", "i", "s", "t", " ", "a", "c", "c", "e", "p", "t", "a", "n", "c",
         "e", " ", "c", "r", "i", "t", "e", "r", "i", "a", " ", "i", "f", " ", "h", "e",
         "l", "p", "f", "u", "l", ".">>,
       <<>>,
       <<"-", " ", "[", " ", "]", " ", "*", "*", "T", "a", "s", "k", " ", "3", ":", " ",
         "A", "d", "d", " ", "T", "e", "s", "t", "s", "*", "*">>,
       <<" ", " ", "W", "r", "i", "t", "e", " ", "t", "e", "s", "t", "s", " ", "f", "o",
         "r", " ", "t", "h", "e", " ", "i", "m", "p", "l", "e", "m", "e", "n", "t", "e",
         "d", " ", "f", "e", "a", "t", "u", "r", "e", "s", ".">>,
       <<" ", " ", "S", "p", "e", "c", "i", "f", "y", " ", "c", "o", "v", "e", "r", "a",
         "g", "e", " ", "r", "e", "q", "u", "i", "r", "e", "m", "e", "n", "t", "s", " ",
         "i", "f", " ", "a", "n", "y", ".">>,
       <<>>,
       <<"-", " ", "[", " ", "]", " ", "*", "*", "T", "a", "s", "k", " ", "4", ":", " ",
         "D", "o", "c", "u", "m", "e", "n", "t", "a", "t", "i", "o", "n", "*", "*">>,
       <<" ", " ", "U", "p", "d", "a", "t", "e", " ", "R", "E", "A", "D", "M", "E", " ",
         "a", "n", "d", " ", "a", "d", "d", " ", "i", "n", "l", "i", "n", "e", " ", "d",
         "o", "c", "u", "m", "e", "n", "t", "a", "t", "i", "o", "n", ".">>,
       <<>>,
       <<"#", "#", " ", "C", "o", "m", "p", "l", "e", "t", "i", "o", "n">>,
       <<>>,
       <<"W", "h", "e", "n", " ", "a", "l", "l", " ", "t", "a", "s", "k", "s", " ", "a",
         "r", "e", " ", "c", "o", "m", "p", "l", "e", "t", "e", " ", "a", "n", "d", " ",
         "v", "e", "r", "i", "f", "i", "e", "d", ",", " ", "o", "u", "t", "p", "u", "t",
         ":">>,
       <<"<", "p", "r", "o", "m", "i", "s", "e", ">", "A", "L", "L", "_", "T", "A", "S",
         "K", "S", "_", "C", "O", "M", "P", "L", "E", "T", "E", "<", "/", "p", "r", "o",
         "m", "i", "s", "e", ">">>,
       <<>>,
       <<"-", "-", "-">>,
       <<>>,
       <<"#", "#", " ", "N", "o", "t", "e", "s">>,
       <<>>,
       <<"A", "d", "d", " ", "a", "n", "y", " ", "a", "d", "d", "i", "t", "i", "o", "n",
         "a", "l", " ", "n", "o", "t", "e", "s", ",", " ", "c", "o", "n", "s", "t", "r",
         "a", "i", "n", "t", "s", ",", " ", "o", "r", " ", "c", "o", "n", "t", "e", "x",
         "t", " ", "h", "e", "r", "e", ".">>,
       <<>> >>

\* the text of the template that args.description replaces
TemplateSlot ==
    <<"D", "e", "s", "c", "r", "i", "b", "e", " ", "y", "o", "u", "r", " ", "p", "r", "o",
      "j", "e", "c", "t", " ", "g", "o", "a", "l", "s", " ", "a", "n", "d", " ", "c", "o",
      "n", "t", "e", "x", "t", " ", "h", "e", "r", "e", ".">>

\* text.replace(pat, rep) for a string pat, on a text held as lines; pat and
\* rep hold no line feed and rep no "$"
ReplaceFirst(lines, pat, rep) ==
    LET I == {n \in 1..Len(lines) : IndexOf(lines[n], pat, 1) > 0}
        i == IndexOf(lines[Min(I)], pat, 1)
    IN  IF I = {} THEN lines
        ELSE [lines EXCEPT ![Min(I)] =
                 SubSeq(@, 1, i - 1) \o rep \o SubSeq(@, i + Len(pat), Len(@))]

\* one step of a call of ralph-plan by p
RalphPlan(p, action, description, file) ==
    LET planPath == OrDefault(file, RALPH_PLAN_FILE)
        content  == readPlanFile(PlanAt(planPath))
        template == IF description # Null /\ description[1] # <<>>
                    THEN ReplaceFirst(PLAN_TEMPLATE, TemplateSlot, description[1])
                    ELSE PLAN_TEMPLATE
    IN  \/ \* lines 648-692: the call, readPlanFile (652, 679), up to the await of
           \* writePlanFile
           /\ pc[p] = Ready
           /\ IF OrDefault(action, "create") = "view"
              THEN /\ Return(p)
                   /\ out' = Out("ralph-plan", IF NoContent(content) THEN "no_plan"
                                               ELSE "viewed")
              ELSE IF ~NoContent(content)
              THEN Return(p) /\ out' = Out("ralph-plan", "exists")
              ELSE /\ Suspend(p, "ralph-plan:write",
                              [path |-> planPath, plan |-> writePlanFile(template)])
                   /\ out' = Out("ralph-plan", "pending")
           /\ UNCHANGED <<stateFile, ralphFile, planFile, otherPlans, messages, now>>
        \/ \* lines 693-705: writePlanFile, the return
           /\ pc[p] = "ralph-plan:write"
           /\ WritePlan(seen[p][1].path, seen[p][1].plan)
           /\ out' = Out("ralph-plan", "created")
           /\ Return(p)
           /\ UNCHANGED <<stateFile, ralphFile, messages, now>>

\* lines 721-752: the only await of ralph-tasks is readPlanFile
RalphTasks(file) ==
    LET content == readPlanFile(PlanAt(OrDefault(file, RALPH_PLAN_FILE)))
    IN  /\ out' = Out("ralph-tasks",
                      IF NoContent(content) THEN "no_plan"
                      ELSE IF Len(parsePlanFile(content[1]).tasks) = 0 THEN "no_tasks"
                      ELSE "listed")
        /\ UNCHANGED <<stateFile, ralphFile, planFile, otherPlans, messages, now, pc, seen>>

\* lines 769-830: the only await of ralph-task is readPlanFile; the tool
\* returns the prompt of the selected task and writes nothing
RalphTask(sel, file) ==
    LET content == readPlanFile(PlanAt(OrDefault(file, RALPH_PLAN_FILE)))
        plan    == parsePlanFile(content[1])
    IN  /\ out' = Out("ralph-task",
                      IF NoContent(content) THEN "no_plan"
                      ELSE IF Len(plan.tasks) = 0 THEN "no_tasks"
                      ELSE IF ResolveTask(plan, sel) = 0 THEN "not_found"
                      ELSE IF plan.tasks[ResolveTask(plan, sel)].status = "completed"
                      THEN "already_complete"
                      ELSE "prompted")
        /\ UNCHANGED <<stateFile, ralphFile, planFile, otherPlans, messages, now, pc, seen>>

\* one step of a call of ralph-complete by p
RalphComplete(p, sel, file) ==
    LET planPath == OrDefault(file, RALPH_PLAN_FILE)
        content  == readPlanFile(PlanAt(planPath))
        plan     == parsePlanFile(content[1])
        k        == ResolveTask(plan, sel)
    IN  \/ \* lines 846-872: the call, readPlanFile (847), up to the await of
           \* writePlanFile
           /\ pc[p] = Ready
           /\ IF NoContent(content)
              THEN Return(p) /\ out' = Out("ralph-complete", "no_plan")
              ELSE IF k = 0
              THEN Return(p) /\ out' = Out("ralph-complete", "not_found")
              ELSE IF plan.tasks[k].status = "completed"
              THEN Return(p) /\ out' = Out("ralph-complete", "already_complete")
              ELSE /\ Suspend(p, "ralph-complete:write",
                              [path |-> planPath,
                               plan |-> writePlanFile(updateTaskStatus(content[1],
                                                                       plan.tasks[k].id,
                                                                       plan.tasks,
                                                                       "completed"))])
                   /\ out' = Out("ralph-complete", "pending")
           /\ UNCHANGED <<stateFile, ralphFile, planFile, otherPlans, messages, now>>
        \/ \* lines 873-884: writePlanFile, the return
           /\ pc[p] = "ralph-complete:write"
           /\ WritePlan(seen[p][1].path, seen[p][1].plan)
           /\ out' = Out("ralph-complete", "completed")
           /\ Return(p)
           /\ UNCHANGED <<stateFile, ralphFile, messages, now>>

\* args.maxIterations ?? 2 of ralph-start
DefaultRalphStartMaxIterations == 2

\* lines 945-955: the RalphState written by ralph-start
RalphPlanState(maxIterations, completionPromise, prompt, sessionId, startedAt, plan) ==
    [active            |-> TRUE,
     iteration         |-> 1,
     maxIterations     |-> maxIterations,
     completionPromise |-> completionPromise,
     prompt            |-> prompt,
     sessionId         |-> sessionId,
     startedAt         |-> startedAt,
     planFile          |-> plan,
     currentTaskId     |-> Null]

\* one step of a call of ralph-start by p
RalphStart(p, file, mi, sid) ==
    LET planPath == OrDefault(file, RALPH_PLAN_FILE)
        content  == readPlanFile(PlanAt(planPath))
        plan     == parsePlanFile(content[1])
    IN  \/ \* lines 909-933: the call, readPlanFile (911), up to the await of readState
           /\ pc[p] = Ready
           /\ IF NoContent(content)
              THEN Return(p) /\ out' = Out("ralph-start", "no_plan")
              ELSE IF Len(plan.tasks) = 0
              THEN Return(p) /\ out' = Out("ralph-start", "no_tasks")
              ELSE IF \A i \in 1..Len(plan.tasks) : plan.tasks[i].status = "completed"
              THEN Return(p) /\ out' = Out("ralph-start", "all_complete")
              ELSE /\ Suspend(p, "ralph-start:state",
                              [planFile          |-> planPath,
                               maxIterations     |-> OrDefault(mi, DefaultRalphStartMaxIterations),
                               prompt            |-> JoinLines(generatePlanPrompt(plan)),
                               completionPromise |-> OrNull(plan.completionPromise),
                               sessionId         |-> sid])
                   /\ out' = Out("ralph-start", "pending")
           /\ UNCHANGED <<stateFile, ralphFile, planFile, otherPlans, messages, now>>
        \/ \* lines 934-955: readState, the state built, up to the await of writeState
           /\ pc[p] = "ralph-start:state"
           /\ IF IsActive(readState(ralphFile))
              THEN /\ Return(p)
                   /\ out' = OutRead("ralph-start", "already_active", readState(ralphFile))
              ELSE /\ Suspend(p, "ralph-start:write",
                              [file |-> writeState(RalphPlanState(seen[p][1].maxIterations,
                                                                  seen[p][1].completionPromise,
                                                                  seen[p][1].prompt,
                                                                  seen[p][1].sessionId, now,
                                                                  Some(seen[p][1].planFile)))])
                   /\ out' = Waiting(OutRead("ralph-start", "started", readState(ralphFile)))
           /\ UNCHANGED <<stateFile, ralphFile, planFile, otherPlans, messages, now>>
        \/ \* lines 956-977: writeState, the return
           /\ pc[p] = "ralph-start:write"
           /\ ralphFile' = seen[p][1].file
           /\ out' = Out("ralph-start", "started")
           /\ Return(p)
           /\ UNCHANGED <<stateFile, planFile, otherPlans, messages, now>>

(***************************************************************************)
(* The tools of src/index.ts on their own, one call at a time.             *)
(* ralph-plan is called without a file and creates PLAN.md from the        *)
(* template; the tools that read tasks are given the path of the plan file *)
(* of the nm tools, which holds one of the plans of PlanFiles; ralph-start *)
(* is called both ways.                                                    *)
(***************************************************************************)
RalphPlanActions == {Null, Some("view")}

\* args.description of ralph-plan: absent, empty, a word
Descriptions == {Null, Some(<<>>), Some(<<"D">>)}

\* args.task of ralph-task and ralph-complete: two ordinals, a word of a
\* title, a word of no title
RalphSelectors == {<<"1">>, <<"2">>, <<"b">>, <<"z">>}

\* the phrase parsePlanFile reads from the template: the rest of the comment
\* line after the key
TemplatePhrase ==
    <<"A", "L", "L", "_", "T", "A", "S", "K", "S", "_", "C", "O", "M", "P", "L", "E", "T",
      "E", " ", "-", "-", ">">>

\* args.text of ralph-check-completion
RalphCheckTexts == {<<"x">>, Promise(PhraseOK), Promise(TemplatePhrase)}

NextRalphTools ==
    \/ \E action \in RalphPlanActions, d \in Descriptions : RalphPlan(1, action, d, Null)
    \/ RalphTasks(Some(DEFAULT_PLAN_FILE))
    \/ \E sel \in RalphSelectors : RalphTask(sel, Some(DEFAULT_PLAN_FILE))
    \/ \E sel \in RalphSelectors : RalphComplete(1, sel, Some(DEFAULT_PLAN_FILE))
    \/ \E file \in FileArgs, mi \in {Null, Some(0)} : RalphStart(1, file, mi, Some("s1"))
    \/ RalphStatus
    \/ \E text \in RalphCheckTexts : RalphCheckCompletion(1, text)
    \/ CancelRalph(1)

SpecRalphTools == Init /\ [][NextRalphTools]_vars

(***************************************************************************)
(* The plan functions on their own: the plan file holds any text of at     *)
(* most MaxLines lines over PlanLines; a step applies parsePlanFile,       *)
(* updateTaskStatus or generatePlanPrompt to it and out records the        *)
(* arguments and the value returned.                                       *)
(***************************************************************************)
PlanLines ==
    {<<>>, LineTitle, OverviewHeading, TasksHeading, LinePending, LineDone, LinePendingBox,
     LineMixed, LineNumbered, LineDesc, LineCarriage, LinePromise, LineComment}

PlanTexts == UNION {[1..n -> PlanLines] : n \in 1..MaxLines}

StatusArgs == {"completed", "pending"}

\* parsePlanFile(content)
Parse ==
    /\ planFile # Null
    /\ out' = [op |-> "parse", doc |-> parsePlanFile(planFile[1])]
    /\ UNCHANGED <<stateFile, ralphFile, planFile, otherPlans, messages, now, pc, seen>>

\* updateTaskStatus(content, `task-${k}`, parsePlanFile(content).tasks, newStatus)
SetStatus(k, newStatus) ==
    /\ planFile # Null
    /\ out' = [op |-> "setStatus", taskNum |-> k, status |-> newStatus,
               text |-> updateTaskStatus(planFile[1], TaskId(k),
                                         parsePlanFile(planFile[1]).tasks, newStatus)]
    /\ UNCHANGED <<stateFile, ralphFile, planFile, otherPlans, messages, now, pc, seen>>

\* generatePlanPrompt(parsePlanFile(content))
Render ==
    /\ planFile # Null
    /\ out' = [op |-> "render", text |-> generatePlanPrompt(parsePlanFile(planFile[1]))]
    /\ UNCHANGED <<stateFile, ralphFile, planFile, otherPlans, messages, now, pc, seen>>

InitPlan ==
    /\ stateFile = Null
    /\ ralphFile = Null
    /\ planFile \in {Some(text) : text \in PlanTexts}
    /\ otherPlans = NoOtherPlans
    /\ messages = <<>>
    /\ now = 0
    /\ out = [op |-> "init"]
    /\ pc = [p \in Procs |-> Ready]
    /\ seen = [p \in Procs |-> Null]

NextPlan ==
    \/ Parse
    \/ \E k \in 1..MaxLines, newStatus \in StatusArgs : SetStatus(k, newStatus)
    \/ Render

SpecPlan == InitPlan /\ [][NextPlan]_vars


(***************************************************************************)
(* extractPromiseText on its own: the session holds one assistant message  *)
(* whose text is any concatenation of at most MaxTokens tokens (the two    *)
(* tags, a space, a line feed, a carriage return, a letter); a step        *)
(* applies the function to it.                                             *)
(***************************************************************************)
ExtractTokens == {OpenTag, CloseTag, <<" ">>, <<"\n">>, <<"\r">>, <<"A">>}

RECURSIVE Concat(_)
Concat(ss) == IF ss = <<>> THEN <<>> ELSE Head(ss) \o Concat(Tail(ss))

ExtractTexts == {Concat(f) : f \in UNION {[1..n -> ExtractTokens] : n \in 0..MaxTokens}}

\* extractPromiseText(part.text)
Extract ==
    /\ out' = [op |-> "extract", result |-> extractPromiseText(messages[1].parts[1].text)]
    /\ UNCHANGED <<stateFile, ralphFile, planFile, otherPlans, messages, now, pc, seen>>

InitExtract ==
    /\ stateFile = Null
    /\ ralphFile = Null
    /\ planFile = Null
    /\ otherPlans = NoOtherPlans
    /\ messages \in {<<AssistantSays(text)>> : text \in ExtractTexts}
    /\ now = 0
    /\ out = [op |-> "init"]
    /\ pc = [p \in Procs |-> Ready]
    /\ seen = [p \in Procs |-> Null]

NextExtract == Extract

SpecExtract == InitExtract /\ [][NextExtract]_vars

(***************************************************************************)
(* The commit message of createGitCommit, over bounded task titles.        *)
(***************************************************************************)
CommitTag == <<"f", "e", "a", "t", "(", "r", "a", "l", "p", "h", ")">>

\* the subject and body built from taskTitle.match(/^\*\*(.+?)\*\*(.*)$/)
formatCommitMessage(taskTitle, taskNum) ==
    LET prefix == CommitTag \o <<":", " ", "t", "a", "s", "k", " ">> \o ToDigits(taskNum)
                     \o <<" ", "-", " ">>
        close  == IndexOf(taskTitle, Bold, 4)
        Headed(heading, description) ==
            [subject |-> prefix \o heading,
             body    |-> IF description # <<>> THEN Some(description) ELSE Null]
    IN  IF StartsWithAt(taskTitle, 1, Bold) /\ close # 0 /\ NoLineBreak(taskTitle)
        THEN Headed(Trim(SubSeq(taskTitle, 3, close - 1)),
                    Trim(SubSeq(taskTitle, close + 2, Len(taskTitle))))
        ELSE [subject |-> prefix \o taskTitle, body |-> Null]

TitleTokens == {Bold, <<" ", "-", " ">>, <<" ">>, <<"A">>, <<"B">>}

TitleTexts == {Concat(f) : f \in UNION {[1..n -> TitleTokens] : n \in 0..MaxTitleTokens}}

\* the message createGitCommit hands to git commit
FormatCommit ==
    /\ out.op = "init"
    /\ out' = [op |-> "format", taskTitle |-> out.taskTitle, taskNum |-> out.taskNum,
               result |-> formatCommitMessage(out.taskTitle, out.taskNum)]
    /\ UNCHANGED <<stateFile, ralphFile, planFile, otherPlans, messages, now, pc, seen>>

InitCommit ==
    /\ stateFile = Null
    /\ ralphFile = Null
    /\ planFile = Null
    /\ otherPlans = NoOtherPlans
    /\ messages = <<>>
    /\ now = 0
    /\ out \in [op : {"init"}, taskTitle : TitleTexts, taskNum : {1, 42}]
    /\ pc = [p \in Procs |-> Ready]
    /\ seen = [p \in Procs |-> Null]

NextCommit == FormatCommit

SpecCommit == InitCommit /\ [][NextCommit]_vars


(***************************************************************************)
(* The scan of the message history: the session holds any history of at    *)
(* most MaxHistory messages, each carrying <promise>OK</promise> in an     *)
(* assistant text part, a user text part or an assistant tool part; a      *)
(* loop with the phrase OK is started with ralph-loop and idle             *)
(* notifications arrive, one call in flight at a time.                     *)
(***************************************************************************)
\* an assistant message whose only part is not a text part
AssistantTool(text) == [role |-> "assistant", parts |-> <<[type |-> "tool", text |-> text]>>]

ScanMessages ==
    {AssistantSays(Promise(PhraseOK)), UserSays(Promise(PhraseOK)),
     AssistantTool(Promise(PhraseOK))}

InitScan ==
    /\ stateFile = Null
    /\ ralphFile = Null
    /\ planFile = Null
    /\ otherPlans = NoOtherPlans
    /\ messages \in UNION {[1..n -> ScanMessages] : n \in 0..MaxHistory}
    /\ now = 0
    /\ out = Out("init", "none")
    /\ pc = [p \in Procs |-> Ready]
    /\ seen = [p \in Procs |-> Null]

NextScan ==
    \/ \E mi \in {Some(0), Some(1)} : RalphLoop(1, <<"g", "o">>, mi, Some(PhraseOK), Some("s1"))
    \/ \E e \in IdleInputs : Idle(1, e)

SpecScan == InitScan /\ [][NextScan]_vars

(***************************************************************************)
(* A state file that is not JSON: something other than the plugin          *)
(* overwrites the state file of either generation while the tools and the  *)
(* handler run.                                                            *)
(***************************************************************************)
CorruptLoopArgs == {a \in LoopArgs : a.prompt = <<"g", "o">> /\ a.mi = Null /\ a.sid = Null}

NextCorrupt ==
    \/ \E p \in Procs, a \in CorruptLoopArgs : NmLoop(p, a.prompt, a.mi, a.cp, a.sid)
    \/ \E p \in Procs : NmTask(p, <<"1">>, Null)
    \/ \E p \in Procs : NmStart(p, Null, Null)
    \/ \E p \in Procs : NmCancel(p)
    \/ NmStatus
    \/ \E p \in Procs, text \in CheckTexts : NmCheckCompletion(p, text)
    \/ CorruptState
    \/ \E mi \in {Some(0), Some(1)}, cp \in {Null, Some(PhraseOK)}, sid \in ToolSessions :
          RalphLoop(1, <<"g", "o">>, mi, cp, sid)
    \/ \E e \in IdleInputs : Idle(1, e)
    \/ AgentMessage(AssistantSays(Promise(PhraseOK)))
    \/ CorruptRalphState

InitCorrupt ==
    /\ stateFile = Null
    /\ ralphFile = Null
    /\ planFile = Some(PlanTwo)
    /\ otherPlans = NoOtherPlans
    /\ messages = <<>>
    /\ now = 0
    /\ out = Out("init", "none")
    /\ pc = [p \in Procs |-> Ready]
    /\ seen = [p \in Procs |-> Null]

SpecCorrupt == InitCorrupt /\ [][NextCorrupt]_vars

(***************************************************************************)
(* Loops are started, checked and cancelled while idle notifications are   *)
(* handled: nm-loop and nm-cancel on the nelson state file; ralph-loop,    *)
(* ralph-start (from a PLAN.md of two tasks), ralph-status,                *)
(* ralph-check-completion, cancel-ralph and the handler on the ralph state *)
(* file.                                                                   *)
(***************************************************************************)
CancelArgs ==
    {a \in RalphArgs : a.prompt = <<"g", "o">> /\ a.mi # Null /\ a.sid # Null}

InitCancel ==
    /\ stateFile = Null
    /\ ralphFile = Null
    /\ planFile = Null
    /\ otherPlans = [NoOtherPlans EXCEPT ![RALPH_PLAN_FILE] = Some(PlanTwo)]
    /\ messages = <<>>
    /\ now = 0
    /\ out = Out("init", "none")
    /\ pc = [p \in Procs |-> Ready]
    /\ seen = [p \in Procs |-> Null]

NextCancel ==
    \/ \E p \in Procs : NmLoop(p, <<"g", "o">>, Null, Null, Null)
    \/ \E p \in Procs : NmCancel(p)
    \/ \E p \in Procs, a \in CancelArgs : RalphLoop(p, a.prompt, a.mi, a.cp, a.sid)
    \/ \E p \in Procs : RalphStart(p, Null, Some(1), Some("s1"))
    \/ RalphStatus
    \/ \E p \in Procs : RalphCheckCompletion(p, Promise(PhraseOK))
    \/ \E p \in Procs : CancelRalph(p)
    \/ \E p \in Procs, e \in IdleInputs : Idle(p, e)
    \/ AgentMessage(AssistantSays(Promise(PhraseOK)))

SpecCancel == InitCancel /\ [][NextCancel]_vars

(***************************************************************************)
(* Idle notifications handled with overlapping execution while loops are   *)
(* started by ralph-loop and the agent writes to the session.              *)
(***************************************************************************)
OverlapInputs == {e \in IdleInputs : e.sid # Some("s2") /\ e.fetchOk /\ e.promptOk}

OverlapArgs ==
    {a \in RalphArgs : a.prompt = <<"g", "o">>}

NextOverlap ==
    \/ \E a \in OverlapArgs : RalphLoop(1, a.prompt, a.mi, a.cp, a.sid)
    \/ \E p \in Procs, e \in OverlapInputs : Idle(p, e)
    \/ AgentMessage(AssistantSays(Promise(PhraseOK)))

SpecOverlap == InitRalph /\ [][NextOverlap]_vars

(***************************************************************************)
(* The tools and the handler one call at a time: a call begins when the    *)
(* call before it has returned, so no read of a state file is separated    *)
(* from the write that follows it by a step of another call.               *)
(***************************************************************************)
InitOneCall ==
    /\ stateFile = Null
    /\ ralphFile = Null
    /\ planFile = Some(PlanTwo)
    /\ otherPlans = [NoOtherPlans EXCEPT ![RALPH_PLAN_FILE] = Some(PlanTwo)]
    /\ messages = <<>>
    /\ now = 0
    /\ out = Out("init", "none")
    /\ pc = [p \in Procs |-> Ready]
    /\ seen = [p \in Procs |-> Null]

NextOneCall ==
    \/ \E a \in StartLoopArgs : NmLoop(1, a.prompt, a.mi, a.cp, a.sid)
    \/ \E mi \in MaxIterArgs : NmStart(1, mi, Null)
    \/ NmCancel(1)
    \/ \E a \in RalphArgs : RalphLoop(1, a.prompt, a.mi, a.cp, a.sid)
    \/ \E mi \in MaxIterArgs : RalphStart(1, Null, mi, Some("s1"))
    \/ CancelRalph(1)
    \/ \E e \in IdleInputs : Idle(1, e)
    \/ AgentMessage(AssistantSays(Promise(PhraseOK)))
    \/ Tick

SpecOneCall == InitOneCall /\ [][NextOneCall]_vars

(***************************************************************************)
(* A plan loop whose plan file the user edits while the agent works: a     *)
(* task line is inserted at the top, the first line is deleted, or the     *)
(* first two lines are exchanged.  The session keeps, as a user message,   *)
(* the title of the task the agent was last asked to work on: the task     *)
(* named by the output of nm-start and by each re-injected prompt.  One    *)
(* loop is started.                                                        *)
(***************************************************************************)
LineNew == <<"-", " ", "[", " ", "]", " ", "N">>

InsertAbove ==
    /\ planFile # Null
    /\ Len(planFile[1]) < MaxLines
    /\ planFile' = Some(<<LineNew>> \o planFile[1])
    /\ otherPlans' = otherPlans
    /\ out' = Out("edit", "insert")
    /\ UNCHANGED <<stateFile, ralphFile, messages, now, pc, seen>>

DeleteFirst ==
    /\ planFile # Null
    /\ Len(planFile[1]) >= 2
    /\ planFile' = Some(Tail(planFile[1]))
    /\ otherPlans' = otherPlans
    /\ out' = Out("edit", "delete")
    /\ UNCHANGED <<stateFile, ralphFile, messages, now, pc, seen>>

SwapFirstTwo ==
    /\ planFile # Null
    /\ Len(planFile[1]) >= 2
    /\ planFile' = Some(<<planFile[1][2], planFile[1][1]>> \o Tail(Tail(planFile[1])))
    /\ otherPlans' = otherPlans
    /\ out' = Out("edit", "swap")
    /\ UNCHANGED <<stateFile, ralphFile, messages, now, pc, seen>>

\* nm-start is called while fewer than MaxAsked prompts have been sent; a call
\* under way goes on
MaxAsked == 1

StartEdit ==
    /\ ControllerIdle
    /\ pc[1] = Ready => Len(messages) < MaxAsked
    /\ \E sid \in ToolSessions : NmStartStep(1, Some(0), sid, TRUE)

\* the notifications of a repository in which every commit is created
IdleEdit == Notification({"ok"}, TRUE)

\* while a notification is handled the user makes at most one edit between
\* two steps of it
EditInTime == ControllerIdle \/ out.op = "controller"

NextEdit ==
    \/ StartEdit
    \/ IdleEdit
    \/ EditInTime /\ InsertAbove
    \/ EditInTime /\ DeleteFirst
    \/ EditInTime /\ SwapFirstTwo

SpecEdit == InitCorrupt /\ [][NextEdit]_vars

\* the same loop when the user leaves the plan file alone
SpecNoEdit == InitCorrupt /\ [][StartEdit \/ IdleEdit]_vars

(***************************************************************************)
(* Properties.  A property of a call is stated for the steps of the call:  *)
(* pc[p] names the await the call of p stopped at and seen[p] the locals   *)
(* it holds, so a step of the call of p from the await L is a step with    *)
(* pc[p] = L that changes pc[p].                                           *)
(***************************************************************************)
\* the call of p takes a step from the await named label
StepFrom(p, label) == pc[p] = label /\ pc'[p] # label

\* a loop of the given mode is persisted and active in the nelson state file
ActiveIn(mode) == stateFile # Null /\ stateFile[1].active /\ stateFile[1].mode = mode

\* the awaits a call of the LoopController stops at
ControllerAwaits == {"controller:write", "controller:commit", "controller:rest"}

\* the step is the first step of a notification of the LoopController that
\* passed the entry condition
Handled ==
    /\ out'.op = "controller"
    /\ out'.result \notin {"noop", "nosession"}
    /\ \A p \in Procs : pc[p] \notin ControllerAwaits

\* the task number of the persisted state
StoredTask == stateFile[1].currentTaskNum[1]

\* the plan file is as the marking of the controller call of p left it: no
\* edit since its write, or since its read when it wrote nothing
AsMarked(p) == ~seen[p][1].m.threw /\ planFile = seen[p][1].m.file

TasksOf(file) == parsePlanFile(file[1]).tasks

Pending(file) == {i \in 1..Len(TasksOf(file)) : TasksOf(file)[i].status # "completed"}

\* the stored task number names a task of the plan file
CurrentTaskValid ==
    /\ planFile # Null
    /\ stateFile[1].currentTaskNum # Null
    /\ stateFile[1].currentTaskNum[1] \in 1..Len(TasksOf(planFile))

\* the stored task is completed in the plan file
StoredDone(file) == file # Null /\ TasksOf(file)[StoredTask].status = "completed"

\* the file holds the state of an active loop
HoldsLoop(file) == readState(file) # Null /\ readState(file)[1].active

StartTools == {"nm-loop", "nm-start", "nm-task"}

\* C1: a step of a start operation (nm-loop, nm-start, nm-task) that reads an
\* active persisted state returns the 'already active' error: the call ends
\* with that step, which writes nothing and leaves the persisted state and
\* the plan file as they were.
C1_StartRejectedWhenActive ==
    [][(/\ HoldsLoop(stateFile)
        /\ out'.op \in StartTools
        /\ out'.read)
       => (/\ out'.result = "already_active"
           /\ stateFile' = stateFile
           /\ planFile' = planFile
           /\ \A p \in Procs : pc'[p] # pc[p] => pc'[p] = Ready)]_vars

\* nm-start rejected at its readState by the state of an active loop
C1_Witness ==
    /\ out.op = "nm-start"
    /\ out.result = "already_active"
    /\ out.read
    /\ HoldsLoop(stateFile)
    /\ \A p \in Procs : pc[p] = Ready

\* C2: a start operation never replaces an active persisted state: the step
\* of nm-loop, nm-start or nm-task that writes the state file finds no active
\* state in it, also when start operations overlap, so of two overlapping
\* start operations at most one returns success.
C2_AtMostOneStartSucceeds ==
    [][(out'.op \in StartTools /\ stateFile' # stateFile)
       => ~HoldsLoop(stateFile)]_vars

\* C9: every stored completion phrase P is detected in <promise>P</promise>:
\* extractPromiseText("<promise>" + P + "</promise>") = P.
C9_StoredPhraseDetectable ==
    (/\ stateFile # Null
     /\ stateFile[1].active
     /\ stateFile[1].completionPromise # Null)
    => extractPromiseText(Promise(stateFile[1].completionPromise[1]))
          = stateFile[1].completionPromise

\* C3: plan loop with maxIterations = 0: every handled idle notification
\* marks the assigned task completed (it writes the plan file it read at the
\* notification with that task completed and no other changed, and, the plan
\* file not edited meanwhile, finds the task completed when it re-reads);
\* if a pending task remains the loop advances to the first one in document
\* order with iteration + 1 and sends a prompt, otherwise the state is
\* removed with a success notification and no prompt is sent, at that
\* notification or at any later one.
C3_PlanLoopEndToEnd ==
    [][/\ (ActiveIn(Some("loop")) /\ stateFile[1].maxIterations = 0)
          => /\ (Handled /\ CurrentTaskValid)
                => \E p \in Procs :
                      /\ StepFrom(p, Ready)
                      /\ pc'[p] = IF StoredDone(planFile) THEN "controller:commit"
                                  ELSE "controller:write"
                      /\ seen'[p][1].read = planFile
             /\ \A p \in Procs :
                   /\ StepFrom(p, "controller:write")
                      => (/\ StoredDone(planFile')
                          /\ Pending(planFile') = Pending(seen[p][1].read) \ {StoredTask})
                   /\ (StepFrom(p, "controller:rest") /\ AsMarked(p)
                          /\ stateFile[1].currentTaskNum # Null)
                      => StoredDone(planFile)
                   /\ (StepFrom(p, "controller:rest") /\ ~NoContent(planFile))
                      => (/\ planFile' = planFile
                          /\ IF Pending(planFile) = {}
                             THEN /\ stateFile' = Null
                                  /\ out'.toast = "success"
                                  /\ out'.prompt = Null
                             ELSE /\ stateFile' # Null
                                  /\ stateFile'[1].active
                                  /\ stateFile'[1].currentTaskNum = Some(Min(Pending(planFile)))
                                  /\ stateFile'[1].iteration = stateFile[1].iteration + 1
                                  /\ out'.prompt # Null)
       /\ (stateFile = Null /\ out'.op = "controller")
          => (stateFile' = Null /\ out'.prompt = Null)]_vars

\* the three-task plan, all tasks marked, after the loop committed task 3 and stopped
C3_Witness ==
    /\ out.op = "controller"
    /\ out.result = "plan_success"
    /\ out.toast = "success"
    /\ out.prompt = Null
    /\ stateFile = Null
    /\ out.commit # Null
    /\ out.commit[1].taskNum = 3
    /\ planFile # Null
    /\ Len(TasksOf(planFile)) = 3
    /\ Pending(planFile) = {}

\* C4: plan loop whose iteration has reached a nonzero maxIterations while
\* another task is still pending: the handled idle notification marks the
\* assigned task completed (it writes the plan file it read with that task
\* completed), removes the state with a limit notification and sends no
\* prompt.
C4_PlanLoopLimit ==
    [][(/\ ActiveIn(Some("loop"))
        /\ stateFile[1].maxIterations > 0
        /\ stateFile[1].iteration >= stateFile[1].maxIterations)
       => /\ (Handled /\ CurrentTaskValid)
             => \E p \in Procs :
                   /\ StepFrom(p, Ready)
                   /\ pc'[p] = IF StoredDone(planFile) THEN "controller:commit"
                               ELSE "controller:write"
                   /\ seen'[p][1].read = planFile
          /\ \A p \in Procs :
                /\ StepFrom(p, "controller:write")
                   => (/\ StoredDone(planFile')
                       /\ Pending(planFile') = Pending(seen[p][1].read) \ {StoredTask})
                /\ (StepFrom(p, "controller:rest") /\ ~NoContent(planFile)
                       /\ Pending(planFile) # {})
                   => (/\ stateFile' = Null
                       /\ out'.result = "plan_limit"
                       /\ out'.toast = "warning"
                       /\ out'.prompt = Null
                       /\ planFile' = planFile)]_vars

\* maxIterations = 1, two pending tasks: stopped at the limit, task 1 marked, task 2 pending
C4_Witness ==
    /\ out.op = "controller"
    /\ out.result = "plan_limit"
    /\ out.toast = "warning"
    /\ stateFile = Null
    /\ out.commit # Null
    /\ out.commit[1].taskNum = 1
    /\ planFile # Null
    /\ Pending(planFile) = {2}

\* C5: single-task mode: the handled idle notification completes the checkbox
\* of the stored task: the plan file it writes is the plan file it read at
\* the notification with no other line and no other task's status changed;
\* no other step of it writes the plan file, and it requests no commit.
C5_SingleTaskMarksOnlyItsTask ==
    [][ActiveIn(Some("single-task"))
       => /\ (Handled /\ CurrentTaskValid)
             => \E p \in Procs :
                   /\ StepFrom(p, Ready)
                   /\ pc'[p] = IF StoredDone(planFile) THEN "controller:rest"
                               ELSE "controller:write"
                   /\ seen'[p][1].read = planFile
          /\ \A p \in Procs :
                /\ StepFrom(p, "controller:write")
                   => (/\ planFile' # Null
                       /\ Len(planFile'[1]) = Len(seen[p][1].read[1])
                       /\ \A n \in 1..Len(planFile'[1]) :
                             n # TasksOf(seen[p][1].read)[StoredTask].lineNumber
                                => planFile'[1][n] = seen[p][1].read[1][n]
                       /\ Len(TasksOf(planFile')) = Len(TasksOf(seen[p][1].read))
                       /\ \A j \in 1..Len(TasksOf(planFile')) :
                             TasksOf(planFile')[j].status =
                                IF j = StoredTask THEN "completed"
                                ELSE TasksOf(seen[p][1].read)[j].status)
                /\ pc'[p] # "controller:commit"
          /\ out'.op = "controller"
             => (/\ out'.commit = Null
                 /\ (\A p \in Procs : pc[p] # "controller:write") => planFile' = planFile)]_vars

\* task 2 of 3 was run alone: task 2 is marked, task 3 is still pending
C5_Witness ==
    /\ out.op = "controller"
    /\ out.result = "single_done"
    /\ out.commit = Null
    /\ planFile # Null
    /\ Len(TasksOf(planFile)) = 3
    /\ Pending(planFile) = {3}

\* C6: single-task mode is one iteration: a handled idle notification ends
\* with no state persisted and sends no prompt at any of its steps, whether
\* or not marking the task succeeded.
C6_SingleTaskOneIteration ==
    [][ActiveIn(Some("single-task"))
       => /\ Handled => \E p \in Procs : StepFrom(p, Ready) /\ pc'[p] \in ControllerAwaits
          /\ \A p \in Procs : StepFrom(p, "controller:rest") => stateFile' = Null
          /\ out'.op = "controller" => out'.prompt = Null]_vars

\* marking failed (the plan file is missing) and the state is cleared all the same
C6_Witness ==
    /\ out.op = "controller"
    /\ out.result = "single_mark_failed"
    /\ out.prompt = Null
    /\ stateFile = Null
    /\ planFile = Null

\* C25: a plan-loop state persisted by nm-start names the first pending task
\* of the plan file as the call read it (the task number kept from
\* readPlanFile is the one written), and one persisted by an advancing idle
\* notification names the first pending task of the plan file as it is then;
\* the stored id is "task-" followed by the stored ordinal, also when the
\* ordinal is lower than the one stored before.
C25_CurrentTaskIsFirstPending ==
    [][/\ \A p \in Procs :
             /\ (StepFrom(p, Ready) /\ pc'[p] = "nm-start:state")
                => (/\ Pending(planFile) # {}
                    /\ seen'[p][1].found.k = Min(Pending(planFile))
                    /\ seen'[p][1].found.id = <<"task-", Min(Pending(planFile))>>)
             /\ StepFrom(p, "nm-start:tools")
                => (/\ seen'[p][1].file[1].currentTaskNum = Some(seen[p][1].found.k)
                    /\ seen'[p][1].file[1].currentTaskId = Some(seen[p][1].found.id)
                    /\ seen'[p][1].file[1].mode = Some("loop")
                    /\ seen'[p][1].file[1].active)
             /\ StepFrom(p, "nm-start:write") => stateFile' = seen[p][1].file
       /\ (out'.op = "controller" /\ out'.result = "plan_advance")
          => (/\ stateFile' # Null
              /\ stateFile'[1].active
              /\ stateFile'[1].mode = Some("loop")
              /\ planFile' # Null
              /\ Pending(planFile') # {}
              /\ stateFile'[1].currentTaskNum = Some(Min(Pending(planFile')))
              /\ stateFile'[1].currentTaskId = Some(<<"task-", Min(Pending(planFile'))>>))]_vars

\* the loop was at task 2; the plan was replaced by one whose task 1 is
\* pending; the advance after marking task 2 goes back to task 1
C25_Witness ==
    /\ out.op = "controller"
    /\ out.result = "plan_advance"
    /\ out.commit # Null
    /\ out.commit[1].taskNum = 2
    /\ stateFile # Null
    /\ stateFile[1].currentTaskNum = Some(1)
    /\ stateFile[1].currentTaskId = Some(<<"task-", 1>>)

WithGit(m, g) ==
    IF m.commitResult = Null THEN m
    ELSE [m EXCEPT !.commitResult =
             Some([@[1] EXCEPT !.result = createGitCommit(@[1].title, @[1].taskNum, g)])]

\* the results r1 and r2 of the rest of a notification differ at most in the
\* commit result they report
SameButCommit(r1, r2) ==
    /\ r2.file = r1.file
    /\ [r2.out EXCEPT !.commit = Null] = [r1.out EXCEPT !.commit = Null]
    /\ r2.out.commit = Null <=> r1.out.commit = Null

C28_MissingPlanStopsLoop ==
    [][/\ ActiveIn(Some("loop"))
          => /\ (Handled /\ NoContent(planFile))
                => \E p \in Procs :
                      /\ StepFrom(p, Ready)
                      /\ pc'[p] = "controller:rest"
                      /\ seen'[p][1].m.commitResult = Null
                      /\ planFile' = planFile
             /\ \A p \in Procs :
                   (StepFrom(p, "controller:rest") /\ NoContent(planFile))
                   => (/\ out'.result = "plan_fatal"
                       /\ stateFile' = Null
                       /\ out'.prompt = Null
                       /\ out'.commit = seen[p][1].m.commitResult
                       /\ planFile' = planFile)
       /\ (out.op = "controller" /\ out.result = "plan_fatal" /\ out'.op = "controller")
          => (/\ out'.result = "noop"
              /\ out'.prompt = Null
              /\ stateFile' = Null
              /\ planFile' = planFile)]_vars

\* the plan file was deleted while the loop ran: the state is gone
C28_Witness ==
    /\ out.op = "controller"
    /\ out.result = "plan_fatal"
    /\ out.prompt = Null
    /\ stateFile = Null
    /\ planFile = Null

\* C29: when the prompt of an advance to task T was not delivered, the state
\* stays active and the next idle notification of the unlimited loop does not
\* mark T: it makes no write and no commit, keeps T as the stored task and
\* sends the prompt of T.
C29_RetrySameTask ==
    [][(/\ out.op = "controller"
        /\ out.result = "plan_advance"
        /\ ~out.prompt[1].delivered
        /\ Handled)
       => (/\ ActiveIn(Some("loop"))
           /\ stateFile[1].maxIterations = 0
              => (/\ \A p \in Procs : pc'[p] \notin {"controller:write", "controller:commit"}
                  /\ planFile' = planFile
                  /\ planFile # Null
                  /\ StoredTask \in Pending(planFile)
                  /\ stateFile' # Null
                  /\ stateFile'[1].currentTaskNum = stateFile[1].currentTaskNum
                  /\ out'.prompt # Null
                  /\ out'.prompt[1].text =
                        CompactPrompt(parsePlanFile(planFile[1]), StoredTask)))]_vars

\* the state the handler call of p holds (read at line 329, with the resolved
\* session id, advanced once the call has passed line 397)
Held(p) == seen[p][1].state

\* the awaits of the handler at which a call holds a state
HandlerAwaits ==
    {"idle:session", "idle:scan", "idle:success", "idle:limit", "idle:advance", "idle:prompt"}

\* the state holds a completion phrase
HasPhrase(state) == state.completionPromise # Null /\ state.completionPromise[1] # <<>>

\* the three places the prompt, the limit and the phrase of a loop are kept in
SameLoop(s, t) ==
    /\ s.prompt = t.prompt
    /\ s.maxIterations = t.maxIterations
    /\ s.completionPromise = t.completionPromise
    /\ s.startedAt = t.startedAt

\* C7: once a handler call has found no completion-phrase match (the scan
\* found none, or the state holds no phrase) and the state it holds has
\* maxIterations > 0, it goes to the limit branch iff iteration >=
\* maxIterations and to the advance otherwise; the limit branch removes the
\* state, sends no prompt and ends the call; the advance persists
\* iteration + 1 and then sends a prompt.
C7_FreeformLimit ==
    [][\A p \in Procs :
          /\ (/\ pc'[p] # pc[p]
              /\ pc'[p] \in {"idle:limit", "idle:advance"}
              /\ seen'[p][1].state.maxIterations > 0)
             => (pc'[p] = "idle:limit"
                    <=> seen'[p][1].state.iteration >= seen'[p][1].state.maxIterations)
          /\ StepFrom(p, "idle:limit")
             => (/\ ralphFile' = Null
                 /\ out'.result = "limit"
                 /\ out'.prompt = Null
                 /\ pc'[p] = Ready)
          /\ StepFrom(p, "idle:advance")
             => (/\ ralphFile' = Some([Held(p) EXCEPT !.iteration = @ + 1])
                 /\ ralphFile'[1].active
                 /\ pc'[p] = "idle:prompt")
          /\ StepFrom(p, "idle:prompt") => out'.prompt # Null]_vars

C7_Witness ==
    /\ out.op = "idle"
    /\ out.result = "limit"
    /\ out.toast = "warning"
    /\ out.prompt = Null
    /\ ralphFile = Null

\* an assistant text part among the last five messages of the session carries a
\* promise span whose normalized text is the phrase
PhraseInWindow(sessionId, phrase) ==
    \E i \in 1..Len(SessionMessages(sessionId)) :
       /\ i > Len(SessionMessages(sessionId)) - 5
       /\ SessionMessages(sessionId)[i].role = "assistant"
       /\ \E k \in 1..Len(SessionMessages(sessionId)[i].parts) :
             /\ SessionMessages(sessionId)[i].parts[k].type = "text"
             /\ extractPromiseText(SessionMessages(sessionId)[i].parts[k].text)
                   = Some(phrase)

\* C8: a handler call whose state holds a completion phrase scans the session
\* before it tests the limit; if the fetch succeeds and a scanned assistant
\* message carries the phrase the call takes the success branch, which
\* removes the state, sends no prompt and reports the un-incremented
\* iteration, also when iteration >= maxIterations holds for that state.
C8_FreeformSuccess ==
    [][\A p \in Procs :
          /\ (/\ pc[p] \in {Ready, "idle:session"}
              /\ pc'[p] \in HandlerAwaits \ {"idle:session"}
              /\ HasPhrase(seen'[p][1].state))
             => pc'[p] = "idle:scan"
          /\ StepFrom(p, "idle:scan")
             => \A e \in IdleInputs :
                   (/\ e.fetchOk
                    /\ PhraseInWindow(Held(p).sessionId, Held(p).completionPromise[1])
                    /\ Idle(p, e))
                   => pc'[p] = "idle:success"
          /\ StepFrom(p, "idle:success")
             => (/\ ralphFile' = Null
                 /\ out'.result = "success"
                 /\ out'.toast = "success"
                 /\ out'.prompt = Null
                 /\ out'.iteration = Some(Held(p).iteration)
                 /\ pc'[p] = Ready)]_vars

\* success reported at a notification where the iteration limit had been reached
C8_Witness ==
    /\ out.op = "idle"
    /\ out.result = "success"
    /\ out.atLimit
    /\ ralphFile = Null
    /\ out.prompt = Null

\* the step is made by a tool that starts a loop in the ralph state file
RalphStartStep == out'.op \in {"ralph-loop", "ralph-start"}

\* C10: the advance of a handler call finds the loop in the state file and
\* persists it with iteration + 1 and nothing else changed; the prompt then
\* re-injected is the banner of the persisted iteration followed by the
\* persisted prompt verbatim, and leaves the file as it is; and from the
\* start of a loop until it stops no step changes the prompt,
\* maxIterations, completion phrase or startedAt of the persisted state.
C10_FreeformAdvance ==
    [][/\ \A p \in Procs :
             /\ StepFrom(p, "idle:advance")
                => (/\ HoldsLoop(ralphFile)
                    /\ ralphFile' = Some([ralphFile[1] EXCEPT !.iteration = @ + 1]))
             /\ StepFrom(p, "idle:prompt")
                => (/\ out'.prompt # Null
                    /\ HoldsLoop(ralphFile)
                    /\ out'.prompt[1].text =
                          SystemMsg(ralphFile[1]) \o <<"\n\n---\n\n">> \o ralphFile[1].prompt
                    /\ ralphFile' = ralphFile)
       /\ (HoldsLoop(ralphFile) /\ HoldsLoop(ralphFile') /\ ~RalphStartStep)
          => SameLoop(ralphFile'[1], ralphFile[1])]_vars

\* C14: the advance of a handler call persists the state, active and with
\* iteration + 1, before the prompt is sent, and the step that sends the
\* prompt leaves the state file as it is whether the prompt is delivered or
\* not: a failed re-injection leaves the persisted state a successful one
\* leaves.
C14_PromptFailureKeepsState ==
    [][\A p \in Procs :
          /\ StepFrom(p, "idle:advance")
             => (/\ HoldsLoop(ralphFile')
                 /\ ralphFile'[1].iteration = Held(p).iteration + 1
                 /\ pc'[p] = "idle:prompt")
          /\ StepFrom(p, "idle:prompt")
             => (/\ ralphFile' = ralphFile
                 /\ out'.result = "advance"
                 /\ pc'[p] = Ready)]_vars

\* an advance to iteration 2 whose prompt was not delivered
C14_Witness ==
    /\ out.op = "idle"
    /\ out.result = "advance"
    /\ out.prompt # Null
    /\ ~out.prompt[1].delivered
    /\ HoldsLoop(ralphFile)
    /\ ralphFile[1].iteration = 2

\* the step is the first step of a handler call of p that is given e
Notified(p, e) == pc[p] = Ready /\ out'.op = "idle" /\ out'.read /\ Idle(p, e)

\* C30: with an active state whose sessionId is null, a notification that
\* carries no session id ends at its first step: no prompt, no toast, the
\* state file unchanged; one that carries a session id goes on: the call
\* holds that id, persists it, and the prompt it sends goes to that session.
C30_NoSessionStall ==
    [][\A p \in Procs :
          /\ (HoldsLoop(ralphFile) /\ ralphFile[1].sessionId = Null)
             => \A e \in IdleInputs :
                   Notified(p, e)
                   => IF e.sid = Null
                      THEN /\ out'.result = "nosession"
                           /\ out'.prompt = Null
                           /\ out'.toast = "none"
                           /\ ralphFile' = ralphFile
                           /\ pc' = pc
                      ELSE /\ pc'[p] = "idle:session"
                           /\ seen'[p][1].state = [ralphFile[1] EXCEPT !.sessionId = e.sid]
          /\ StepFrom(p, "idle:session")
             => (ralphFile' = Some(Held(p)) /\ pc'[p] \in HandlerAwaits)
          /\ StepFrom(p, "idle:prompt")
             => (out'.prompt # Null /\ out'.prompt[1].session = Held(p).sessionId)]_vars

\* a loop started without a session id, stalled at iteration 1
C30_Witness ==
    /\ out.op = "idle"
    /\ out.result = "nosession"
    /\ HoldsLoop(ralphFile)
    /\ ralphFile[1].sessionId = Null
    /\ ralphFile[1].iteration = 1

\* C32: a handler call takes the limit branch only for a state with
\* maxIterations > 0.  For a loop with maxIterations = 0 and no completion
\* phrase a notification with a resolvable session goes to the advance, which
\* persists iteration + 1 and sends the prompt to that session; one without
\* changes nothing; and the handler removes a state only in a call that
\* holds a limit or a phrase.
C32_ZeroMeansUnbounded ==
    [][\A p \in Procs :
          /\ (pc'[p] # pc[p] /\ pc'[p] = "idle:limit") => seen'[p][1].state.maxIterations > 0
          /\ (/\ HoldsLoop(ralphFile)
              /\ ralphFile[1].maxIterations = 0
              /\ ~HasPhrase(ralphFile[1]))
             => \A e \in IdleInputs :
                   Notified(p, e)
                   => IF e.sid = Null /\ ralphFile[1].sessionId = Null
                      THEN out'.result = "nosession" /\ ralphFile' = ralphFile /\ pc' = pc
                      ELSE pc'[p] \in {"idle:session", "idle:advance"}
          /\ (/\ StepFrom(p, "idle:session")
              /\ Held(p).maxIterations = 0
              /\ ~HasPhrase(Held(p)))
             => pc'[p] = "idle:advance"
          /\ StepFrom(p, "idle:advance")
             => (/\ HoldsLoop(ralphFile')
                 /\ ralphFile'[1].iteration = Held(p).iteration + 1
                 /\ ralphFile'[1].maxIterations = Held(p).maxIterations
                 /\ pc'[p] = "idle:prompt")
          /\ StepFrom(p, "idle:prompt")
             => (/\ out'.prompt # Null
                 /\ out'.prompt[1].session = Held(p).sessionId
                 /\ out'.prompt[1].text = PromptText(Held(p)))
          /\ (StepFrom(p, pc[p]) /\ pc[p] \in HandlerAwaits /\ ralphFile' = Null /\ ralphFile # Null)
             => (Held(p).maxIterations > 0 \/ HasPhrase(Held(p)))]_vars

\* an unbounded loop without a phrase was advanced from iteration 1: it holds
\* the iteration that equals the default limit of ralph-loop, and the prompt
\* of that iteration was delivered
C32_Witness ==
    /\ HoldsLoop(ralphFile)
    /\ ralphFile[1].maxIterations = 0
    /\ ralphFile[1].completionPromise = Null
    /\ ralphFile[1].iteration = DefaultLoopMaxIterations
    /\ out.op = "idle"
    /\ out.result = "advance"
    /\ out.prompt # Null
    /\ out.prompt[1].delivered

\* the iteration of a persisted state is at least 1 and, when maxIterations
\* is at least 1, at most maxIterations
WithinBounds(file) ==
    readState(file) # Null
    => (/\ file[1].iteration >= 1
        /\ file[1].maxIterations >= 1 => file[1].iteration <= file[1].maxIterations)

\* the iteration persisted by the step is the one persisted before it, or
\* that plus one
OneUp(file, fileAfter) ==
    (readState(file) # Null /\ readState(fileAfter) # Null)
    => fileAfter[1].iteration \in {file[1].iteration, file[1].iteration + 1}

\* C35: every persisted loop state, of either state file, has iteration >= 1
\* and, when maxIterations >= 1, iteration <= maxIterations; during the life
\* of a loop (a step that is not the write of a start) the persisted
\* iteration stays or grows by one, never decreases; and a prompt is
\* re-injected only by the call whose step before it raised the persisted
\* iteration by one, so that a loop re-injects at most maxIterations - 1
\* prompts.
C35_IterationBounds ==
    [][/\ WithinBounds(ralphFile')
       /\ WithinBounds(stateFile')
       /\ ~RalphStartStep => OneUp(ralphFile, ralphFile')
       /\ out'.op \notin StartTools => OneUp(stateFile, stateFile')
       /\ \A p \in Procs :
             /\ (out'.prompt # Null /\ pc'[p] # pc[p]) => pc[p] = "idle:prompt"
             /\ (pc'[p] # pc[p] /\ pc'[p] = "idle:prompt")
                => (/\ pc[p] = "idle:advance"
                    /\ readState(ralphFile) # Null
                    /\ readState(ralphFile') # Null
                    /\ ralphFile'[1].iteration = ralphFile[1].iteration + 1)]_vars

\* C39: for an active loop with a stored session id, a notification that
\* carries another session's id ends at its first step: it neither advances
\* nor stops the loop, leaves the stored id alone and sends no prompt.
C39_ForeignSessionIgnored ==
    [][\A p \in Procs :
          (HoldsLoop(ralphFile) /\ ralphFile[1].sessionId # Null)
          => \A e \in IdleInputs :
                (Notified(p, e) /\ e.sid # Null /\ e.sid # ralphFile[1].sessionId)
                => (pc' = pc /\ ralphFile' = ralphFile /\ out'.prompt = Null)]_vars


\* the document parsed from the text the step was applied to
DocOf == parsePlanFile(planFile[1])

\* the step is setStatus for the id of a task of the parsed text
KnownTask == out.op = "setStatus" /\ out.taskNum <= Len(DocOf.tasks)

\* the position of the checkbox bracket of a task line: its first "["
FirstBracket(line) == IndexOf(line, <<"[">>, 1)

\* C15: setStatus for a known task returns a text with the same number of
\* lines; every line other than the task's line is identical to the input, and
\* the task's line differs at most in the character inside the checkbox.
C15_MutationLocality ==
    KnownTask
    => LET ln == DocOf.tasks[out.taskNum].lineNumber
       IN  /\ Len(out.text) = Len(planFile[1])
           /\ \A n \in 1..Len(planFile[1]) : n # ln => out.text[n] = planFile[1][n]
           /\ Len(out.text[ln]) = Len(planFile[1][ln])
           /\ \A j \in 1..Len(planFile[1][ln]) :
                 j # FirstBracket(planFile[1][ln]) + 1
                 => out.text[ln][j] = planFile[1][ln][j]

\* C16: setStatus applied again to its own result, with the same task list,
\* id and status, returns that result.
C16_MutationIdempotent ==
    KnownTask
    => updateTaskStatus(out.text, TaskId(out.taskNum), DocOf.tasks, out.status) = out.text

\* C17: parsing the text returned by setStatus gives the title, overview,
\* completion phrase and task count of the input and, per task, the same id,
\* title, description and lineNumber; the targeted task has the target status
\* and every other task keeps its status.
C17_ParseMutateRoundTrip ==
    KnownTask
    => LET d2 == parsePlanFile(out.text)
       IN  /\ d2.title = DocOf.title
           /\ d2.overview = DocOf.overview
           /\ d2.completionPromise = DocOf.completionPromise
           /\ Len(d2.tasks) = Len(DocOf.tasks)
           /\ \A i \in 1..Len(DocOf.tasks) :
                 /\ d2.tasks[i].id = DocOf.tasks[i].id
                 /\ d2.tasks[i].title = DocOf.tasks[i].title
                 /\ d2.tasks[i].description = DocOf.tasks[i].description
                 /\ d2.tasks[i].lineNumber = DocOf.tasks[i].lineNumber
                 /\ d2.tasks[i].status = IF i = out.taskNum THEN out.status
                                         ELSE DocOf.tasks[i].status

\* C18: parsing the rendering of a parsed document gives the same number of
\* tasks, the same title and status of each task in order, and the same
\* completion phrase.
C18_RenderParseRoundTrip ==
    out.op = "render"
    => LET d2 == parsePlanFile(out.text)
       IN  /\ Len(d2.tasks) = Len(DocOf.tasks)
           /\ \A i \in 1..Len(DocOf.tasks) :
                 /\ d2.tasks[i].title = DocOf.tasks[i].title
                 /\ d2.tasks[i].status = DocOf.tasks[i].status
           /\ d2.completionPromise = DocOf.completionPromise

\* C19: in a parsed document the i-th task has id "task-i", lineNumbers are
\* strictly increasing and within the text, each lineNumber points at a
\* checkbox line, and a task is completed iff the bracket of that line holds
\* x or X.
C19_ParsedTaskOrder ==
    out.op = "parse"
    => \A i \in 1..Len(out.doc.tasks) :
          LET task == out.doc.tasks[i]
              line == planFile[1][task.lineNumber]
              b    == FirstBracket(line)
          IN  /\ task.id = <<"task-", i>>
              /\ task.lineNumber \in 1..Len(planFile[1])
              /\ i > 1 => out.doc.tasks[i - 1].lineNumber < task.lineNumber
              /\ b >= 1
              /\ b + 2 <= Len(line)
              /\ line[b + 1] \in {" ", "x", "X"}
              /\ line[b + 2] = "]"
              /\ task.status \in {"completed", "pending"}
              /\ task.status = "completed" <=> line[b + 1] \in {"x", "X"}

\* two tasks parsed, the second from a numbered line with a capital X
C19_Witness ==
    /\ out.op = "parse"
    /\ Len(out.doc.tasks) = 2
    /\ out.doc.tasks[1].status = "pending"
    /\ out.doc.tasks[2].status = "completed"
    /\ planFile[1][out.doc.tasks[2].lineNumber] = LineNumbered
    /\ out.doc.tasks[2].lineNumber = 3

\* line n of the text follows an Overview heading with no Tasks heading between
OverviewOpenAt(text, n) ==
    \E m \in 1..(n - 1) :
       /\ IsHeading(text[m], WordOverview)
       /\ \A j \in (m + 1)..(n - 1) : ~IsHeading(text[j], WordTasks)

\* C20: a checkbox line met while overview capture is open starts a task and
\* is not appended to the overview.
C20_CheckboxBeforeOverview ==
    out.op = "parse"
    => \A n \in 1..Len(planFile[1]) :
          (TaskMatch(planFile[1][n]) # Null /\ OverviewOpenAt(planFile[1], n))
          => (/\ \E i \in 1..Len(out.doc.tasks) : out.doc.tasks[i].lineNumber = n
              /\ ~Includes(out.doc.overview, planFile[1][n]))

\* C21: in a text whose only phrase declaration is the comment line
\* "<!-- completion_promise: OK -->" the parsed completion phrase is OK
\* exactly, so the promise the completion section asks for,
\* <promise>OK</promise>, is detected as the parsed phrase.
C21_CommentPhraseExact ==
    (/\ out.op = "parse"
     /\ \E n \in 1..Len(planFile[1]) : planFile[1][n] = LineComment
     /\ \A n \in 1..Len(planFile[1]) : planFile[1][n] # LinePromise)
    => (/\ out.doc.completionPromise = Some(PhraseOK)
        /\ extractPromiseText(Promise(PhraseOK)) = out.doc.completionPromise)

\* the characters of s that are not whitespace, in order
NonWs(s) == LET Keep(c) == c \notin WS IN SelectSeq(s, Keep)

\* the number of maximal runs of non-whitespace characters of s
WordCount(s) == Cardinality({k \in 1..Len(s) : s[k] \notin WS /\ (k = 1 \/ s[k - 1] \in WS)})

\* the inner text of the first span of text: from the first opening tag to the
\* first closing tag after it
FirstSpanInner(text) ==
    LET i == Min({k \in 1..Len(text) : StartsWithAt(text, k, OpenTag)})
        j == Min({k \in (i + 9)..Len(text) : StartsWithAt(text, k, CloseTag)})
    IN  SubSeq(text, i + 9, j - 1)

\* C22: extract returns null iff the text holds no <promise>...</promise>
\* span; otherwise the result is the inner text of the first span with outer
\* whitespace removed and every whitespace run replaced by one space: the same
\* words in the same order, no whitespace at either end, no two adjacent
\* whitespace characters, no whitespace character other than a space.
C22_ExtractFirstSpanNormalized ==
    out.op = "extract"
    => LET text  == messages[1].parts[1].text
           spans == {<<i, j>> \in (1..Len(text)) \X (1..Len(text)) :
                        /\ StartsWithAt(text, i, OpenTag)
                        /\ StartsWithAt(text, j, CloseTag)
                        /\ j >= i + 9}
       IN  /\ out.result = Null <=> spans = {}
           /\ out.result # Null
              => LET r == out.result[1]
                 IN  /\ NonWs(r) = NonWs(FirstSpanInner(text))
                     /\ WordCount(r) = WordCount(FirstSpanInner(text))
                     /\ r # <<>> => (r[1] \notin WS /\ r[Len(r)] \notin WS)
                     /\ \A k \in 1..Len(r) : r[k] \in WS => r[k] = " "
                     /\ \A k \in 1..(Len(r) - 1) : ~(r[k] \in WS /\ r[k + 1] \in WS)

\* "<promise> A</promise><promise></promise>": the first of two spans, trimmed
C22_Witness ==
    /\ out.op = "extract"
    /\ messages[1].parts[1].text = OpenTag \o <<" ", "A">> \o CloseTag \o OpenTag \o CloseTag
    /\ out.result = Some(<<"A">>)

\* the task a selector names: the ordinal when the selector is a number within
\* 1..n, otherwise the first task whose title contains the (non-empty)

\* s with every "**" removed, left to right
RECURSIVE StripBold(_)
StripBold(s) ==
    IF s = <<>> THEN <<>>
    ELSE IF StartsWithAt(s, 1, Bold) THEN StripBold(SubSeq(s, 3, Len(s)))
    ELSE <<s[1]>> \o StripBold(Tail(s))

\* C34: the commit message for task N with title T has the subject
\* "<tag>: task N - H", H being T trimmed, without bold markers and cut at the
\* first " - "; the text after the separator is the body, and the body is
\* null when T has no separator.
C34_CommitMessageFormat ==
    out.op = "format"
    => LET t    == Trim(out.taskTitle)
           sep  == IndexOf(t, <<" ", "-", " ">>, 1)
           head == IF sep = 0 THEN t ELSE SubSeq(t, 1, sep - 1)
       IN  /\ out.result.subject
                = CommitTag \o <<":", " ", "t", "a", "s", "k", " ">> \o ToDigits(out.taskNum)
                    \o <<" ", "-", " ">> \o Trim(StripBold(head))
           /\ out.result.body
                = IF sep = 0 THEN Null ELSE Some(Trim(SubSeq(t, sep + 3, Len(t))))

\* C11: a cancel call (nm-cancel on the nelson state file, cancel-ralph on
\* the ralph state file) that reads an active state keeps the iteration it
\* read, and its next step removes the state and reports that iteration; a
\* notification that finds no state ends at its first step: no prompt, no
\* toast, nothing written; a start operation that reads the state right
\* after a cancel has returned is accepted.
C11_Cancel ==
    [][/\ (out'.op = "nm-cancel" /\ out'.read /\ HoldsLoop(stateFile))
          => (/\ stateFile' = stateFile
              /\ \E p \in Procs :
                    /\ pc[p] = Ready
                    /\ pc'[p] = "nm-cancel:remove"
                    /\ seen'[p][1].out.iteration = Some(stateFile[1].iteration))
       /\ (out'.op = "cancel-ralph" /\ out'.read /\ HoldsLoop(ralphFile))
          => (/\ ralphFile' = ralphFile
              /\ \E p \in Procs :
                    /\ pc[p] = Ready
                    /\ pc'[p] = "cancel-ralph:remove"
                    /\ seen'[p][1].out.iteration = Some(ralphFile[1].iteration))
       /\ \A p \in Procs :
             /\ StepFrom(p, "nm-cancel:remove")
                => (/\ stateFile' = Null
                    /\ out'.result = "cancelled"
                    /\ out'.iteration = seen[p][1].out.iteration
                    /\ pc'[p] = Ready)
             /\ StepFrom(p, "cancel-ralph:remove")
                => (/\ ralphFile' = Null
                    /\ out'.result = "cancelled"
                    /\ out'.iteration = seen[p][1].out.iteration
                    /\ pc'[p] = Ready)
       /\ (out'.op = "idle" /\ out'.read /\ readState(ralphFile) = Null)
          => (/\ out'.result = "noop"
              /\ out'.prompt = Null
              /\ out'.toast = "none"
              /\ ralphFile' = ralphFile
              /\ pc' = pc)
       /\ (out.op = "nm-cancel" /\ out.result = "cancelled" /\ out'.op = "nm-loop" /\ out'.read)
          => (/\ out'.result = "pending"
              /\ \E p \in Procs :
                    /\ pc'[p] = "nm-loop:write"
                    /\ seen'[p][1].out.result = "started"
                    /\ HoldsLoop(seen'[p][1].file)
                    /\ seen'[p][1].file[1].iteration = 1)
       /\ (out.op = "cancel-ralph" /\ out.result = "cancelled" /\ out'.op = "ralph-loop" /\ out'.read)
          => (/\ out'.result = "pending"
              /\ \E p \in Procs :
                    /\ pc'[p] = "ralph-loop:write"
                    /\ seen'[p][1].out.result = "started"
                    /\ HoldsLoop(seen'[p][1].file)
                    /\ seen'[p][1].file[1].iteration = 1)]_vars

\* nm-cancel has removed the state of an active loop and reported its iteration
C11_Witness ==
    /\ out.op = "nm-cancel"
    /\ out.result = "cancelled"
    /\ out.iteration = Some(1)
    /\ stateFile = Null
    /\ \A p \in Procs : pc[p] = Ready

\* C12: with a state file that is not JSON, a notification ends at its first
\* step (no prompt, no toast, nothing written), nm-cancel, nm-status and
\* nm-check-completion report that no loop is active and leave the file
\* alone, and a start operation that reads the state goes on to its write,
\* which replaces the file with a fresh active state; no operation throws.
C12_CorruptStateIsNoState ==
    [][/\ (ralphFile = CorruptFile /\ out'.op = "idle" /\ out'.read)
          => (/\ out'.result = "noop"
              /\ out'.prompt = Null
              /\ out'.toast = "none"
              /\ ralphFile' = ralphFile
              /\ pc' = pc)
       /\ (/\ stateFile = CorruptFile
           /\ out'.op \in {"nm-cancel", "nm-status", "nm-check-completion"}
           /\ out'.read)
          => (/\ out'.result = "no_loop"
              /\ stateFile' = stateFile
              /\ planFile' = planFile
              /\ pc' = pc)
       /\ (stateFile = CorruptFile /\ out'.op \in StartTools /\ out'.read)
          => (/\ out'.result = "pending"
              /\ stateFile' = stateFile
              /\ \E p \in Procs :
                    /\ pc'[p] # pc[p]
                    /\ pc'[p] \in {"nm-loop:write", "nm-task:write", "nm-start:tools"})
       /\ \A p \in Procs :
             (\/ StepFrom(p, "nm-loop:write")
              \/ StepFrom(p, "nm-task:write")
              \/ StepFrom(p, "nm-start:write"))
             => (/\ stateFile' # CorruptFile
                 /\ HoldsLoop(stateFile')
                 /\ stateFile'[1].iteration = 1
                 /\ out'.result = "started")
       /\ out'.result # "threw"]_vars

\* a notification handled while the state file is not JSON
C12_Witness ==
    /\ ralphFile = CorruptFile
    /\ out.op = "idle"
    /\ out.result = "noop"
    /\ out.read

\* C13: no exception escapes the idle handler: whichever call of a step of
\* the handler fails (log, toast, state write, state removal, message fetch,
\* prompt), the step does not throw, and a call that found the loop finished
\* (phrase detected or limit reached) leaves no active state behind.
C13_NoExceptionEscapes ==
    [][/\ out'.op = "idle" => out'.result # "threw"
       /\ \A p \in Procs :
             (StepFrom(p, "idle:success") \/ StepFrom(p, "idle:limit"))
             => ~HoldsLoop(ralphFile')]_vars

\* the task a selector names: the ordinal when the selector is a number within
\* 1..n, otherwise the first task whose title contains the (non-empty)
\* selector ignoring case; 0 when it names none
SelectedTask(file, sel) ==
    LET tasks == TasksOf(file)
        T == {i \in 1..Len(tasks) :
                 \E j \in 1..Len(tasks[i].title) :
                    /\ j + Len(sel) - 1 <= Len(tasks[i].title)
                    /\ \A k \in 1..Len(sel) :
                          ToLower(tasks[i].title[j + k - 1]) = ToLower(sel[k])}
    IN  IF /\ sel # <<>>
           /\ \A k \in 1..Len(sel) : sel[k] \in Digits
           /\ DigitsValue(sel) \in 1..Len(tasks)
        THEN DigitsValue(sel)
        ELSE IF sel = <<>> \/ T = {} THEN 0 ELSE Min(T)

\* C23: nm-task and nm-complete, once the plan is read (and, for nm-task, has
\* tasks), report 'not found' exactly when the selector names no task; the
\* task nm-task goes on with is the named one, and the text nm-complete goes
\* on to write marks the named one.  The empty selector and a selector that
\* only starts with digits name no task.
C23_SelectorResolution ==
    [][\A p \in Procs, sel \in SelectorArgs :
          /\ (/\ pc[p] = Ready
              /\ NmTask(p, sel, Null)
              /\ out'.result \notin {"no_plan", "no_tasks"})
             => (/\ out'.result = "not_found" <=> SelectedTask(planFile, sel) = 0
                 /\ out'.result = "pending"
                    => seen'[p][1].k = SelectedTask(planFile, sel))
          /\ (/\ pc[p] = Ready
              /\ NmComplete(p, sel)
              /\ out'.result # "no_plan")
             => (/\ out'.result = "not_found" <=> SelectedTask(planFile, sel) = 0
                 /\ out'.result = "pending"
                    => Pending(seen'[p][1].plan)
                          = Pending(planFile) \ {SelectedTask(planFile, sel)})]_vars

\* the results that report a user-input error
UserErrors ==
    {"no_plan", "no_tasks", "not_found", "already_complete", "all_complete", "no_content",
     "exists", "already_active", "no_prompt"}

\* C24: a step of a tool call that reports a user-input error (plan file
\* missing, no tasks, unknown selector, task already completed, all tasks
\* complete, save without content, plan already exists, loop already
\* active, empty prompt) leaves the state files and the plan files as they
\* were and ends the call, and the call has made no write before it.
C24_ErrorsMutateNothing ==
    [][out'.result \in UserErrors
       => (/\ stateFile' = stateFile
           /\ ralphFile' = ralphFile
           /\ planFile' = planFile
           /\ otherPlans' = otherPlans
           /\ \A p \in Procs :
                 /\ pc'[p] \in {pc[p], Ready}
                 /\ pc'[p] # pc[p]
                    => pc[p] \in {"nm-task:state", "nm-start:state", "ralph-start:state"})]_vars

\* a save refused because the plan file exists, while a loop is active
C24_Witness ==
    /\ out.op = "nm-plan"
    /\ out.result = "exists"
    /\ HoldsLoop(stateFile)
    /\ planFile = Some(PlanThree)

\* C31: a handler call takes the success branch only from its scan, and only
\* if the message fetch succeeded and a text part of an assistant message
\* among the last five messages of the session carries the phrase; a span in
\* a user message, in a part that is not text or in an older message does
\* not stop the loop, and a failed fetch counts as no match.
C31_PromiseOnlyInRecentAssistantText ==
    [][\A p \in Procs :
          (pc'[p] # pc[p] /\ pc'[p] = "idle:success")
          => (/\ pc[p] = "idle:scan"
              /\ Held(p).completionPromise # Null
              /\ \A e \in IdleInputs :
                    Idle(p, e)
                    => (/\ e.fetchOk
                        /\ \E i \in 1..Len(SessionMessages(Held(p).sessionId)) :
                              LET m == SessionMessages(Held(p).sessionId)[i]
                              IN  /\ i > Len(SessionMessages(Held(p).sessionId)) - 5
                                  /\ m.role = "assistant"
                                  /\ \E k \in 1..Len(m.parts) :
                                        /\ m.parts[k].type = "text"
                                        /\ extractPromiseText(m.parts[k].text)
                                              = Held(p).completionPromise))]_vars

\* six messages: the assistant's promise is the oldest, then user messages
\* and a tool part that carry the promise; the fetch succeeded and the loop
\* advanced
C31_Witness ==
    /\ out.op = "idle"
    /\ out.result = "advance"
    /\ out.prompt # Null
    /\ out.prompt[1].session = Some("s1")
    /\ ralphFile # Null
    /\ ralphFile[1].completionPromise = Some(PhraseOK)
    /\ Len(messages) = 6
    /\ messages[1] = AssistantSays(Promise(PhraseOK))
    /\ messages[2] = UserSays(Promise(PhraseOK))
    /\ messages[6] = AssistantTool(Promise(PhraseOK))
    /\ \A i \in 2..6 : messages[i] # AssistantSays(Promise(PhraseOK))

\* the text holds an opening tag and a closing tag after it
HasSpan(text) ==
    \E i, j \in 1..Len(text) :
       StartsWithAt(text, i, OpenTag) /\ StartsWithAt(text, j, CloseTag) /\ j >= i + 9

\* r is s with outer whitespace removed and every whitespace run replaced by
\* one space
NormalFormOf(r, s) ==
    /\ NonWs(r) = NonWs(s)
    /\ WordCount(r) = WordCount(s)
    /\ r # <<>> => (r[1] \notin WS /\ r[Len(r)] \notin WS)
    /\ \A k \in 1..Len(r) : r[k] \in WS => r[k] = " "
    /\ \A k \in 1..(Len(r) - 1) : ~(r[k] \in WS /\ r[k + 1] \in WS)

\* C33: a call of nm-check-completion goes on to its removeState exactly
\* when the state it reads is that of an active loop whose completion phrase
\* is set, the text holds a promise span and the stored phrase is the
\* normalized inner text of the first span; that step removes the state; in
\* every other case the call ends at its first step and the state file is
\* left as it was.
C33_CheckCompletionRemovesIffMatch ==
    [][\A p \in Procs :
          /\ (pc[p] = Ready /\ out'.op = "nm-check-completion" /\ out'.read)
             => \A text \in CheckTexts :
                   NmCheckCompletion(p, text)
                   => (/\ stateFile' = stateFile
                       /\ IF /\ stateFile # Null
                             /\ stateFile # CorruptFile
                             /\ stateFile[1].active
                             /\ stateFile[1].completionPromise # Null
                             /\ HasSpan(text)
                             /\ NormalFormOf(stateFile[1].completionPromise[1],
                                             FirstSpanInner(text))
                          THEN pc'[p] = "nm-check-completion:remove"
                          ELSE pc' = pc /\ out'.result \notin {"detected", "pending"})
          /\ StepFrom(p, "nm-check-completion:remove")
             => (stateFile' = Null /\ out'.result = "detected" /\ pc'[p] = Ready)
          /\ (out'.op = "nm-check-completion" /\ stateFile' # stateFile)
             => \E q \in Procs : StepFrom(q, "nm-check-completion:remove")]_vars

\* the tool has removed the state of a loop
C33_Witness ==
    /\ out.op = "nm-check-completion"
    /\ out.result = "detected"
    /\ out.iteration = Some(1)
    /\ stateFile = Null

\* C36: when a handled idle notification of a plan loop marks a task
\* completed or requests a commit, the task is the one the agent was last
\* asked to work on (same title), whatever lines the user inserted, deleted
\* or exchanged above it in between: the text the call writes differs from
\* the text it read only in the line of that task, and the commit names it.
C36_MarksPromptedTask ==
    [][\A p \in Procs :
          (ActiveIn(Some("loop")) /\ messages # <<>>)
          => LET asked == messages[Len(messages)].parts[1].text
                 read  == seen[p][1].read
             IN  /\ StepFrom(p, "controller:write")
                    => (/\ planFile' # Null
                        /\ Len(planFile'[1]) = Len(read[1])
                        /\ \A i \in 1..Len(read[1]) :
                              planFile'[1][i] # read[1][i]
                              => TasksOf(Some(<<read[1][i]>>))[1].title = asked)
                 /\ StepFrom(p, "controller:commit")
                    => out'.commit[1].title = asked]_vars

\* C37: in the state in which a cancel has just returned for an active loop,
\* every step that is not a step of a start leaves the loop state absent and
\* sends no prompt, also the rest of a handler call that had read the state
\* before the cancel.
C37_CancelIsFinal ==
    [][/\ (/\ out.op = "cancel-ralph"
           /\ out.result = "cancelled"
           /\ out'.op \notin {"ralph-loop", "ralph-start"})
          => (ralphFile' = Null /\ out'.prompt = Null)
       /\ (out.op = "nm-cancel" /\ out.result = "cancelled" /\ out'.op # "nm-loop")
          => stateFile' = Null]_vars

\* C38: no update of the persisted iteration is lost.  A prompt is sent
\* only by the call that has just persisted an advance, so the prompts
\* re-injected equal the increase of the persisted iteration, and stay
\* within maxIterations - 1, exactly if every advance finds a loop in the
\* file, raises its persisted iteration by one, and finds it below a
\* positive maxIterations.
C38_NoLostUpdate ==
    [][\A p \in Procs :
          /\ (out'.prompt # Null /\ pc'[p] # pc[p]) => pc[p] = "idle:prompt"
          /\ (pc'[p] # pc[p] /\ pc'[p] = "idle:prompt") => pc[p] = "idle:advance"
          /\ (StepFrom(p, "idle:advance") /\ out'.result # "threw")
             => (/\ HoldsLoop(ralphFile)
                 /\ ralphFile'[1].iteration = ralphFile[1].iteration + 1
                 /\ ralphFile[1].maxIterations > 0
                    => ralphFile[1].iteration < ralphFile[1].maxIterations)]_vars

====
